---- MODULE Spec2Model ----
(***************************************************************************)
(* The macOS event translation and dispatch loop of winit                  *)
(* (src/src/platform_impl/macos/event_loop.rs): the shared state of an     *)
(* EventLoop (window registry, pending event queue, user callback slot),   *)
(* the modifier state, the translation of one NSEvent into canonical       *)
(* events, and the two dispatch sessions poll_events and run_forever.      *)
(*                                                                         *)
(* The main thread is one process whose position is pc.  The native side   *)
(* is the environment: it posts native events, fires window delegate       *)
(* callbacks while native code runs on the main thread (inside             *)
(* nextEventMatchingMask, inside sendEvent_, inside the user's callback    *)
(* and between sessions), and answers the user callback's ControlFlow.     *)
(***************************************************************************)
EXTENDS Integers, Sequences, FiniteSets, TLC

\* ------------------------------------------------------------------ bounds
\* Native events posted to the application's queue in one behaviour.
MaxNative == 2
\* Window delegate callbacks fired in one behaviour.
MaxDelegate == 2
\* Dispatch sessions (poll_events / run_forever calls) in one behaviour.
MaxSessions == 2
\* window delegate callbacks while run_forever is inside a live resize
MaxResizeCallbacks == 3
\* changes of the monitor configuration the X server makes
MaxConfigChanges == 3
\* available_monitors and invalidate_cached_monitor_list calls, all threads together
MaxMonitorCalls == 4
\* hide_cursor calls on the window, all threads together
MaxHideCalls == 3

\* ---------------------------------------------------------------- constants
\* The key code of "." : <Cmd-.> is translated on key down.
PeriodKeyCode == 47
\* x11/monitor.rs: "This should always be committed as false."
DISABLE_MONITOR_LIST_CACHING == FALSE

WindowIds == {1, 2, 3}
ModifierKeys == {"shift", "ctrl", "logo", "alt"}
\* the threads that use the X connection's monitor list
Threads == {1, 2}

VARIABLES
    nativeQ,          \* the NSApplication event queue (FIFO of native events)
    nativeCount,      \* native events posted so far (gives each its id)
    windows,          \* Shared.windows: the registry, a sequence of weak references
    alive,            \* windows whose owner still holds a strong reference
    keyWindow,        \* the window AppKit reports as key (0: none of ours)
    pending_events,   \* Shared.pending_events
    user_callback,    \* Shared.user_callback: << >> (None) or <<s>> (the callback of session s)
    modifiers,        \* EventLoop.modifiers
    control_flow,     \* run_forever's control_flow cell
    pc,               \* where the main thread is
    mode,             \* "poll" or "run": which dispatch call is active
    ret_to,           \* where the running user callback returns to
    callback,         \* call_with_event's local: the pointer taken out of the slot
    ns,               \* the native event the loop last got from the native source
    cur,              \* the canonical event the user callback is running on
    sess,             \* dispatch sessions started so far
    delegateCount,    \* delegate callbacks fired so far
    stamp,            \* canonical events produced so far (production order)
    produced,         \* history: every canonical event produced
    delivered,        \* history: every callback invocation, in order
    translations,     \* history: every ns_event_to_event call on a dequeued event
    main_thread,      \* whether the thread that owns the EventLoop is the main thread
    panics,           \* dispatch calls that panicked on the main-thread check
    wakeups,          \* history: every Proxy::wakeup call and what it returned
    MONITORS,         \* x11 MONITORS: << >> (None) or <<list>> (the cached monitor list)
    monitors_lock,    \* the thread that holds the MONITORS mutex (0: nobody)
    screen,           \* the X server's monitor configuration (a version number)
    call,             \* per thread: where its monitor call is, and its locals
    monitorCalls,     \* monitor calls started so far
    queries,          \* history: the runs of query_monitor_list
    returned,         \* history: what available_monitors returned
    invalidations,    \* history: the configuration at each completed invalidation
    cursor_hidden,    \* the window's cursor_hidden flag (AtomicBool)
    hide_counter,     \* the native hide counter of NSCursor
    hider,            \* per thread: where its hide_cursor call is, and its argument
    hideCalls         \* hide_cursor calls started so far

vars == <<nativeQ, nativeCount, windows, alive, keyWindow, pending_events,
          user_callback, modifiers, control_flow, pc, mode, ret_to, callback,
          ns, cur, sess, delegateCount, stamp, produced, delivered, translations,
          main_thread, panics, wakeups,
          MONITORS, monitors_lock, screen, call, monitorCalls, queries, returned,
          invalidations, cursor_hidden, hide_counter, hider, hideCalls>>

\* ------------------------------------------------------------ native events
NilEvent ==
    [id |-> 0, type |-> "nil", win |-> 0, flags |-> {}, dx |-> 0, dy |-> 0,
     keycode |-> 0, subtype |-> "none"]

NativeEvent(type, win, flags, dx, dy, keycode, subtype) ==
    [id |-> 0, type |-> type, win |-> win, flags |-> flags, dx |-> dx, dy |-> dy,
     keycode |-> keycode, subtype |-> subtype]

\* An application-defined event that is not of the activated subtype.
WakeupEventOtherSubtype ==
    NativeEvent("NSApplicationDefined", 0, {}, 0, 0, 0, "none")

\* The synthetic event Proxy::wakeup posts.
WakeupEvent ==
    NativeEvent("NSApplicationDefined", 0, {}, 0, 0, 0, "NSApplicationActivatedEventType")

\* The native events the window server posts in the dispatch specification.
NativeInputs ==
    { NativeEvent("NSKeyUp", 1, {}, 0, 0, 0, "none"),
      NativeEvent("NSMouseMoved", 1, {}, 1, 1, 0, "none"),
      NativeEvent("NSMouseExited", 2, {}, 0, 0, 0, "none") }

\* The native events of the translator specification: every modifier-flag
\* snapshot, <Cmd-.> key down, the type 21 event, a type the translator has no
\* arm for, an application-defined event that is not a wakeup, and a type whose
\* raw value has no NSEventType variant (other than 21).
TranslatorInputs ==
    { NativeEvent("NSFlagsChanged", 1, flags, 0, 0, 0, "none") : flags \in SUBSET ModifierKeys }
        \cup { NativeEvent("NSKeyDown", 1, {"logo"}, 0, 0, PeriodKeyCode, "none"),
               NativeEvent("type21", 1, {}, 0, 0, 0, "none"),
               NativeEvent("NSLeftMouseDown", 1, {}, 0, 0, 0, "none"),
               NativeEvent("NSApplicationDefined", 0, {}, 0, 0, 0, "none"),
               NativeEvent("unlisted", 1, {}, 0, 0, 0, "none") }

\* The native events of the registry specification: a scroll (routed through
\* the registry) and a mouse exit, on the second and third window.
RegistryInputs ==
    { NativeEvent(type, win, {}, 0, 1, 0, "none") :
        type \in {"NSScrollWheel", "NSMouseExited"}, win \in {2, 3} }

\* The native events of the input specification: mouse moves with every
\* combination of zero and non-zero deltas, a drag, mouse entries and scrolls,
\* each on the registered window 1 and on window 2, which is not registered;
\* the logo key going down, <Cmd-.> and other key-downs, key-ups, and an
\* application-defined event that is not a wakeup.
InputInputs ==
    { NativeEvent("NSMouseMoved", win, {}, dx, dy, 0, "none") :
        win \in {1, 2}, dx \in {0, 1}, dy \in {0, 1} }
      \cup { NativeEvent("NSLeftMouseDragged", 1, {}, 1, 0, 0, "none") }
      \cup { NativeEvent(type, win, {}, 0, 1, 0, "none") :
               type \in {"NSMouseEntered", "NSScrollWheel"}, win \in {1, 2} }
      \cup { NativeEvent("NSFlagsChanged", 1, {"logo"}, 0, 0, 0, "none"),
             NativeEvent("NSKeyDown", 1, {"logo"}, 0, 0, PeriodKeyCode, "none"),
             NativeEvent("NSKeyDown", 1, {"logo"}, 0, 0, 0, "none"),
             NativeEvent("NSKeyDown", 1, {}, 0, 0, PeriodKeyCode, "none"),
             NativeEvent("NSKeyUp", 1, {"logo"}, 0, 0, PeriodKeyCode, "none"),
             NativeEvent("NSKeyUp", 1, {}, 0, 0, 0, "none"),
             WakeupEventOtherSubtype }

\* ---------------------------------------------------------- canonical events
NoEvent ==
    [kind |-> "none", win |-> 0, arg |-> <<>>, stamp |-> 0, src |-> 0,
     origin |-> "none", born |-> 0, routed |-> TRUE]

\* An event as the code builds it: kind, window id and payload.  The other
\* fields are history, filled in when the event is produced (see Stamped).
Ev(kind, win, arg) ==
    [kind |-> kind, win |-> win, arg |-> arg, stamp |-> 0, src |-> 0,
     origin |-> "none", born |-> 0, routed |-> TRUE]

WindowEventKinds ==
    {"KeyboardInput", "CursorMoved", "CursorEntered", "CursorLeft",
     "MouseWheel", "TouchpadPressure", "Resized"}

IsWindowEvent(e) == e.kind \in WindowEventKinds

\* The events window delegate callbacks emit.
DelegateInputs == { Ev("Resized", 1, <<>>) }

\* ------------------------------------------------------------------ registry
\* An upgrade that succeeds on every entry, as if the registry held strong
\* references.
upgrade_strong(al, w) == TRUE

\* Weak::upgrade on the registry entry of window w: Some while an owner still
\* holds a strong reference.
upgrade(al, w) == w \in al

\* windows.iter().filter_map(Weak::upgrade).find(|window| window_id == window.id()):
\* the first registered window that is still alive and has the event's id (0: None).
maybe_window(ws, al, window_id) ==
    LET found == SelectSeq(ws, LAMBDA w : upgrade(al, w) /\ w = window_id)
    IN  IF found = <<>> THEN 0 ELSE Head(found)

\* The first registered live window that AppKit reports as key (0: None).
maybe_key_window(ws, al, key) ==
    LET found == SelectSeq(ws, LAMBDA w : upgrade(al, w) /\ w = key)
    IN  IF found = <<>> THEN 0 ELSE Head(found)

\* A resolution that never falls back to the key window.
window_only(ws, al, key, window_id) == maybe_window(ws, al, window_id)

\* maybe_window.or_else(maybe_key_window)
window_or_key(ws, al, key, window_id) ==
    IF maybe_window(ws, al, window_id) # 0
        THEN maybe_window(ws, al, window_id)
        ELSE maybe_key_window(ws, al, key)

\* A removal that keeps the entries of destroyed windows.
remove_window_keeping_dead(ws, al, id) == SelectSeq(ws, LAMBDA w : w # id)

\* A removal that drops the oldest entry whatever the id.
remove_first_window(ws, al, id) == IF ws = << >> THEN ws ELSE Tail(ws)

\* windows.retain(|w| match w.upgrade() { Some(w) => w.id() != id, None => false })
find_and_remove_window(ws, al, id) ==
    SelectSeq(ws, LAMBDA w : upgrade(al, w) /\ w # id)

\* --------------------------------------------------------------- translation
NoModifiers == [shift |-> FALSE, ctrl |-> FALSE, logo |-> FALSE, alt |-> FALSE]

\* modifier_event reporting a key as pressed whenever the flags hold it.
modifier_event_on_held(e, keymask, was_key_pressed) ==
    IF keymask \in e.flags
        THEN << Ev("KeyboardInput", e.win, << "Pressed", e.keycode, e.flags, keymask >>) >>
        ELSE << >>

\* modifier_event: a KeyboardInput when the event's flags and was_key_pressed
\* disagree on keymask, nothing otherwise.  The event carries the state, the key
\* code and the event's modifiers; the keymask is kept with it as history.
modifier_event(e, keymask, was_key_pressed) ==
    IF (~was_key_pressed /\ keymask \in e.flags) \/ (was_key_pressed /\ keymask \notin e.flags)
        THEN << Ev("KeyboardInput", e.win,
                   << IF was_key_pressed THEN "Released" ELSE "Pressed",
                      e.keycode, e.flags, keymask >>) >>
        ELSE << >>

\* FlagsChangedEvents testing alt before logo.
FlagsChangedEventsAltFirst(e, mods) ==
    modifier_event(e, "shift", mods.shift) \o modifier_event(e, "ctrl", mods.ctrl)
        \o modifier_event(e, "alt", mods.alt) \o modifier_event(e, "logo", mods.logo)

\* The NSFlagsChanged arm: one modifier_event per key, in the order the code
\* tests them (shift, ctrl, logo, alt), toggling the tracked state of each key
\* that yields an event.
FlagsChangedEvents(e, mods) ==
    modifier_event(e, "shift", mods.shift) \o modifier_event(e, "ctrl", mods.ctrl)
        \o modifier_event(e, "logo", mods.logo) \o modifier_event(e, "alt", mods.alt)

\* FlagsChangedModifiers that never toggles the tracked state.
FlagsChangedModifiersStale(e, mods) == mods

FlagsChangedModifiers(e, mods) ==
    [k \in ModifierKeys |->
        IF modifier_event(e, k, mods[k]) # << >> THEN ~mods[k] ELSE mods[k]]

\* MotionEvents with the aggregate MouseMotion pushed first.
MotionEventsAggregateFirst(e) ==
    (IF e.dx # 0 \/ e.dy # 0 THEN << Ev("MouseMotion", 0, <<e.dx, e.dy>>) >> ELSE << >>)
        \o (IF e.dx # 0 THEN << Ev("Motion", 0, <<0, e.dx>>) >> ELSE << >>)
        \o (IF e.dy # 0 THEN << Ev("Motion", 0, <<1, e.dy>>) >> ELSE << >>)

\* The mouse moved / dragged arm's device events.
MotionEvents(e) ==
    (IF e.dx # 0 THEN << Ev("Motion", 0, <<0, e.dx>>) >> ELSE << >>)
        \o (IF e.dy # 0 THEN << Ev("Motion", 0, <<1, e.dy>>) >> ELSE << >>)
        \o (IF e.dx # 0 \/ e.dy # 0 THEN << Ev("MouseMotion", 0, <<e.dx, e.dy>>) >> ELSE << >>)

MouseMotionTypes ==
    {"NSMouseMoved", "NSLeftMouseDragged", "NSOtherMouseDragged", "NSRightMouseDragged"}

\* The key-down arm suppressing every key-down with logo held.
KeyDownEventsAnyKey(e) ==
    IF "logo" \in e.flags THEN modifier_event(e, "logo", FALSE) ELSE << >>

\* The NSKeyDown arm: <Cmd-.> goes through modifier_event with the key taken
\* as not pressed before; every other key-down yields nothing.
KeyDownEvents(e) ==
    IF "logo" \in e.flags /\ e.keycode = PeriodKeyCode
        THEN modifier_event(e, "logo", FALSE)
        ELSE << >>

\* The scroll arm with the device event returned and the window event queued.
ScrollWheelEventsDeviceFirst(e) ==
    << Ev("DeviceMouseWheel", 0, <<e.dx, e.dy>>), Ev("MouseWheel", e.win, <<e.dx, e.dy>>) >>

\* The NSScrollWheel arm for a registered window: the WindowEvent::MouseWheel
\* it returns and the DeviceEvent::MouseWheel it pushes, both built from
\* scrollingDeltaX / scrollingDeltaY.
ScrollWheelEvents(e) ==
    << Ev("MouseWheel", e.win, <<e.dx, e.dy>>), Ev("DeviceMouseWheel", 0, <<e.dx, e.dy>>) >>

\* The application-defined arm taking every subtype for a wakeup.
ApplicationDefinedEventsAnySubtype(e) == << Ev("Awakened", 0, << >>) >>

\* The NSApplicationDefined arm: Awakened for the activated subtype only.
ApplicationDefinedEvents(e) ==
    IF e.subtype = "NSApplicationActivatedEventType"
        THEN << Ev("Awakened", 0, << >>) >>
        ELSE << >>

\* events.pop_front() and the rest, as [ret, queued].
PopFront(events, mods) ==
    IF events = << >>
        THEN [ret |-> << >>, queued |-> << >>, mods |-> mods]
        ELSE [ret |-> << Head(events) >>, queued |-> Tail(events), mods |-> mods]

Nothing(mods) == [ret |-> << >>, queued |-> << >>, mods |-> mods]

\* ns_event_to_event: what translating native event e returns (ret: << >> for
\* None, <<event>> for Some), what it appends to pending_events (queued) and the
\* modifier state it leaves (mods).
ns_event_to_event(e, ws, al, key, mods) ==
    CASE e.type = "nil" -> Nothing(mods)
      [] e.type = "type21" -> Nothing(mods)
      [] e.type = "NSKeyUp" -> Nothing(mods)
      [] e.type = "NSKeyDown" ->
            PopFront(KeyDownEvents(e), mods)
      [] e.type = "NSFlagsChanged" ->
            PopFront(FlagsChangedEvents(e, mods), FlagsChangedModifiers(e, mods))
      [] e.type = "NSMouseEntered" ->
            IF window_or_key(ws, al, key, e.win) = 0
                THEN Nothing(mods)
                ELSE [ret |-> << Ev("CursorEntered", e.win, << >>) >>,
                      queued |-> << Ev("CursorMoved", window_or_key(ws, al, key, e.win), e.flags) >>,
                      mods |-> mods]
      [] e.type = "NSMouseExited" ->
            [ret |-> << Ev("CursorLeft", e.win, << >>) >>, queued |-> << >>, mods |-> mods]
      [] e.type \in MouseMotionTypes ->
            IF window_or_key(ws, al, key, e.win) = 0
                THEN Nothing(mods)
                ELSE PopFront(MotionEvents(e), mods)
      [] e.type = "NSScrollWheel" ->
            IF maybe_window(ws, al, e.win) = 0
                THEN Nothing(mods)
                ELSE PopFront(ScrollWheelEvents(e), mods)
      [] e.type = "NSEventTypePressure" ->
            [ret |-> << Ev("TouchpadPressure", e.win, << >>) >>, queued |-> << >>, mods |-> mods]
      [] e.type = "NSApplicationDefined" ->
            PopFront(ApplicationDefinedEvents(e), mods)
      [] OTHER -> Nothing(mods)

\* Production order and provenance of the events one step produces: the i-th
\* gets stamp base + i, the id of the native event it comes from (0: a delegate
\* callback), how it was produced, the number of sessions started by then, and
\* whether the window it names was a live registered window at that moment.
Stamped(events, base, src, origin, born, ws, al) ==
    [i \in 1..Len(events) |->
        [events[i] EXCEPT !.stamp = base + i, !.src = src, !.origin = origin,
                          !.born = born,
                          !.routed = (maybe_window(ws, al, events[i].win) # 0)]]

SeqToSet(s) == { s[i] : i \in 1..Len(s) }

\* ------------------------------------------------------------------ initial
\* The macOS window's cursor state after construction: cursor_hidden is
\* Default::default() (false), the cursor is visible and no thread is inside
\* hide_cursor.
CursorInit ==
    /\ cursor_hidden = FALSE
    /\ hide_counter = 0
    /\ hider = [t \in Threads |-> [pc |-> "idle", hide |-> FALSE]]
    /\ hideCalls = 0

\* The X11 monitor cache at process start: MONITORS is Mutex::default() (None,
\* unlocked) and no thread is inside a monitor call.
MonitorInit ==
    /\ MONITORS = << >>
    /\ monitors_lock = 0
    /\ screen = 0
    /\ call = [t \in Threads |-> [pc |-> "idle", op |-> "none", window_rect |-> << >>,
                                  resources |-> << >>, monitor_index |-> 0,
                                  available |-> << >>, has_primary |-> FALSE, cfg |-> 0,
                                  result |-> << >>, hit |-> FALSE, floor |-> 0]]
    /\ monitorCalls = 0
    /\ queries = << >>
    /\ returned = << >>
    /\ invalidations = << >>

\* Shared::new, Modifiers::new and EventLoop::new, and the application's windows
\* before the first dispatch call: window 1 is registered, alive and key;
\* window 2 has been closed and is no longer in the registry.
Init ==
    /\ nativeQ = << >>
    /\ nativeCount = 0
    /\ windows = <<1>>
    /\ alive = SeqToSet(windows)
    /\ keyWindow = 1
    /\ pending_events = << >>
    /\ user_callback = << >>
    /\ modifiers = NoModifiers
    /\ control_flow = "Continue"
    /\ pc = "idle"
    /\ mode = "none"
    /\ ret_to = "none"
    /\ callback = << >>
    /\ ns = NilEvent
    /\ cur = NoEvent
    /\ sess = 0
    /\ delegateCount = 0
    /\ stamp = 0
    /\ produced = {}
    /\ delivered = << >>
    /\ translations = << >>
    /\ main_thread \in BOOLEAN
    /\ panics = 0
    /\ wakeups = << >>
    /\ MonitorInit
    /\ CursorInit

native == <<nativeQ, nativeCount>>
registry == <<windows, alive, keyWindow>>
slot == <<user_callback, callback, cur, ret_to>>
history == <<stamp, produced, delivered, translations>>
context == <<main_thread, panics, wakeups>>
monitor == <<MONITORS, monitors_lock, screen, call, monitorCalls, queries, returned,
             invalidations>>
cursor == <<cursor_hidden, hide_counter, hider, hideCalls>>

\* ------------------------------------------------------------ the environment
\* The window server posts a native event to the application's queue.
NativePost(e) ==
    /\ nativeCount < MaxNative
    /\ nativeCount' = nativeCount + 1
    /\ nativeQ' = Append(nativeQ, [e EXCEPT !.id = nativeCount + 1])
    /\ UNCHANGED <<cursor, monitor, context, registry, slot, history, pending_events, modifiers, control_flow,
                   pc, mode, ns, sess, delegateCount>>

\* What Proxy::wakeup returns: Ok(()), whether or not the EventLoop exists (the
\* Proxy holds no reference to it).
wakeup(exists) == "Ok"

\* Wakeup that also takes the pointer out of the callback slot.
WakeupTakingSlot ==
    /\ nativeCount < MaxNative
    /\ nativeCount' = nativeCount + 1
    /\ nativeQ' = Append(nativeQ, [WakeupEvent EXCEPT !.id = nativeCount + 1])
    /\ wakeups' = Append(wakeups, [id |-> nativeCount + 1, exists |-> pc # "dropped",
                                   result |-> wakeup(pc # "dropped")])
    /\ user_callback' = << >>
    /\ UNCHANGED <<cursor, monitor, main_thread, panics, windows, alive, keyWindow, callback, cur,
                   ret_to, stamp, produced, delivered, translations, pending_events,
                   modifiers, control_flow, pc, mode, ns, sess, delegateCount>>

\* Proxy::wakeup, from any thread: postEvent_atStart_(event, NO) appends the
\* application-defined event to the queue.
Wakeup ==
    /\ nativeCount < MaxNative
    /\ nativeCount' = nativeCount + 1
    /\ nativeQ' = Append(nativeQ, [WakeupEvent EXCEPT !.id = nativeCount + 1])
    /\ wakeups' = Append(wakeups, [id |-> nativeCount + 1, exists |-> pc # "dropped",
                                   result |-> wakeup(pc # "dropped")])
    /\ UNCHANGED <<cursor, monitor, main_thread, panics, registry, slot, history, pending_events, modifiers, control_flow,
                   pc, mode, ns, sess, delegateCount>>

\* Where native code runs on the main thread and may call a window delegate:
\* between sessions, inside the user's callback, inside nextEventMatchingMask
\* and inside sendEvent_ (not reached for the type 21 event).
AtDelegatePoint ==
    \/ pc \in {"idle", "cb", "next", "innext"}
    \/ pc = "send" /\ ns.type # "type21"

\* ------------------------------------------------------------------ dispatch
\* pop_front taking the newest event instead of the oldest.
pop_back(q) == [event |-> q[Len(q)], rest |-> SubSeq(q, 1, Len(q) - 1)]

\* pop_front that also discards the event behind the one it returns.
pop_front_skipping(q) ==
    [event |-> Head(q), rest |-> IF Len(q) > 1 THEN Tail(Tail(q)) ELSE << >>]

\* pending_events.pop_front() on a non-empty queue: the event and what is left.
pop_front(q) == [event |-> Head(q), rest |-> Tail(q)]

\* push_back that loses the event.
push_dropped(q, e) == q

\* pending_events.push_back(event)
push_back(q, e) == Append(q, e)

\* A run_forever that asks for the next native event right after a None.
OnNoneSkipsDrain(m) == IF m = "poll" THEN "ret" ELSE "next"

\* A poll_events that goes round its loop again when no native event is queued.
OnNoneLoops(m) == "drain"

\* OnNone with run_forever breaking on None as poll_events does.
OnNoneBreaks(m) == "ret"

\* What the loop does with a None from ns_event_to_event: poll_events breaks,
\* run_forever goes round its loop.
OnNone(m) == IF m = "poll" THEN "ret" ELSE "drain"

\* After with the drain stopping after its first invocation.
AfterSingleDrain(site, m, cf) ==
    CASE site = "drain" -> "next"
      [] site = "loop" -> IF m = "run" /\ cf = "Break" THEN "ret" ELSE "drain"
      [] OTHER -> site

\* After with the Break check made after every invocation of the drain too.
AfterChecking(site, m, cf) ==
    CASE site \in {"drain", "loop"} -> IF m = "run" /\ cf = "Break" THEN "ret" ELSE "drain"
      [] OTHER -> site

\* Where the loop continues once call_with_event at `site` is over: the drain
\* loop pops the next event; after the translated event poll_events goes round
\* its loop and run_forever breaks if control_flow is Break; a delegate's call
\* returns into the native code that made it.
After(site, m, cf) ==
    CASE site = "drain" -> "drain"
      [] site = "loop" -> IF m = "run" /\ cf = "Break" THEN "ret" ELSE "drain"
      [] OTHER -> site

\* After call_user_callback_with_pending_events: run_forever breaks if
\* control_flow is Break; otherwise the loop asks for the next native event.
AfterDrain(m, cf) == IF m = "run" /\ cf = "Break" THEN "ret" ELSE "next"

\* A main-thread check that always passes.
isMainThreadSkipped(on_main) == TRUE

\* [NSThread isMainThread] as seen by the thread that owns the EventLoop.
isMainThread(on_main) == on_main

\* UserCallback::store: the slot holds the pointer to the callback of session s.
store(s) == << s >>

\* A take that leaves the value in the Option.
take_leaving(option) == option

\* Option::take, on the callback slot (call_with_event) and on the monitor
\* cache: the Option is left None.
take(option) == << >>

\* A drop that leaves the pointer in the slot.
drop_keeping(pointer) == pointer

\* UserCallback::drop: take() empties the slot.
drop(pointer) == << >>

\* poll_events or run_forever called off the main thread: panic! before store.
DispatchPanics ==
    /\ pc = "idle"
    /\ sess + panics < MaxSessions
    /\ ~isMainThread(main_thread)
    /\ panics' = panics + 1
    /\ UNCHANGED <<cursor, monitor, native, main_thread, wakeups, registry, slot, history,
                   pending_events, modifiers, control_flow, pc, mode, ns, sess,
                   delegateCount>>

\* The EventLoop goes out of scope between dispatch calls; proxies created from
\* it remain.
DropEventLoop ==
    /\ pc = "idle"
    /\ pc' = "dropped"
    /\ UNCHANGED <<cursor, monitor, native, context, registry, slot, history, pending_events,
                   modifiers, control_flow, mode, ns, sess, delegateCount>>

\* EventLoop::poll_events up to the loop: the callback is stored in the slot.
poll_events ==
    /\ pc = "idle"
    /\ isMainThread(main_thread)
    /\ sess < MaxSessions
    /\ sess' = sess + 1
    /\ mode' = "poll"
    /\ user_callback' = store(sess + 1)
    /\ pc' = "drain"
    /\ UNCHANGED <<cursor, monitor, native, context, registry, history, pending_events, modifiers,
                   control_flow, callback, cur, ret_to, ns, delegateCount>>

\* EventLoop::run_forever up to the loop: control_flow starts as Continue and
\* the wrapping callback is stored in the slot.
run_forever ==
    /\ pc = "idle"
    /\ isMainThread(main_thread)
    /\ sess < MaxSessions
    /\ sess' = sess + 1
    /\ mode' = "run"
    /\ control_flow' = "Continue"
    /\ user_callback' = store(sess + 1)
    /\ pc' = "drain"
    /\ UNCHANGED <<cursor, monitor, native, context, registry, history, pending_events, modifiers,
                   callback, cur, ret_to, ns, delegateCount>>

\* call_user_callback_with_pending_events, one turn of its loop on a non-empty
\* queue: pop_front, then call_with_event, which takes the pointer out of the
\* slot and calls it (or returns at once when the slot is empty).
PendingPop ==
    /\ pc = "drain"
    /\ pending_events # << >>
    /\ pending_events' = pop_front(pending_events).rest
    /\ IF user_callback = << >>
         THEN UNCHANGED <<pc, slot>>
         ELSE /\ callback' = user_callback
              /\ user_callback' = take(user_callback)
              /\ cur' = pop_front(pending_events).event
              /\ ret_to' = "drain"
              /\ pc' = "cb"
    /\ UNCHANGED <<cursor, monitor, native, context, registry, history, modifiers, control_flow, mode, ns,
                   sess, delegateCount>>

\* call_user_callback_with_pending_events returns on an empty queue, and the
\* loop goes on (see AfterDrain).
PendingEmpty ==
    /\ pc = "drain"
    /\ pending_events = << >>
    /\ pc' = AfterDrain(mode, control_flow)
    /\ UNCHANGED <<cursor, monitor, native, context, registry, slot, history, pending_events, modifiers,
                   control_flow, mode, ns, sess, delegateCount>>

\* nextEventMatchingMask dequeues the oldest native event.
NextEventSome ==
    /\ pc \in {"next", "innext"}
    /\ nativeQ # << >>
    /\ ns' = Head(nativeQ)
    /\ nativeQ' = Tail(nativeQ)
    /\ pc' = "send"
    /\ UNCHANGED <<cursor, monitor, nativeCount, context, registry, slot, history, pending_events, modifiers,
                   control_flow, mode, sess, delegateCount>>

\* poll_events only (untilDate distantPast): nextEventMatchingMask returns nil,
\* ns_event_to_event(nil) is None and the loop breaks.  With distantFuture
\* (run_forever) the call blocks instead.
NextEventNil ==
    /\ pc \in {"next", "innext"}
    /\ mode = "poll"
    /\ nativeQ = << >>
    /\ ns' = NilEvent
    /\ pc' = OnNone(mode)
    /\ UNCHANGED <<cursor, monitor, native, context, registry, slot, history, pending_events, modifiers,
                   control_flow, mode, sess, delegateCount>>

\* ns_event_to_event on the dequeued event and what the loop does with the
\* result: Some(event) is passed to call_with_event; None is left to OnNone.
Translate ==
    /\ pc = "send"
    /\ LET t == ns_event_to_event(ns, windows, alive, keyWindow, modifiers)
           out == Stamped(t.ret \o t.queued, stamp, ns.id, "trans", sess, windows, alive)
           queued == IF t.ret = << >> THEN out ELSE Tail(out)
       IN  /\ modifiers' = t.mods
           /\ stamp' = stamp + Len(out)
           /\ produced' = produced \cup SeqToSet(out)
           /\ translations' = Append(translations,
                 [ns |-> ns, ret |-> SubSeq(out, 1, Len(t.ret)), queued |-> queued,
                  window |-> maybe_window(windows, alive, ns.win),
                  key |-> maybe_key_window(windows, alive, keyWindow),
                  registered |-> Len(windows), session |-> sess, mods |-> modifiers,
                  live |-> ns.win \in alive])
           /\ pending_events' = pending_events \o queued
           /\ IF t.ret = << >>
                THEN /\ pc' = OnNone(mode)
                     /\ UNCHANGED slot
                ELSE IF user_callback = << >>
                       THEN /\ pc' = After("loop", mode, control_flow)
                            /\ UNCHANGED slot
                       ELSE /\ callback' = user_callback
                            /\ user_callback' = take(user_callback)
                            /\ cur' = out[1]
                            /\ ret_to' = "loop"
                            /\ pc' = "cb"
    /\ UNCHANGED <<cursor, monitor, native, context, registry, control_flow, mode, ns, sess, delegateCount,
                   delivered>>

\* ns_event_to_event on an event whose raw type has no NSEventType variant and
\* is not 21: matching on the invalid enum value is undefined behaviour.  The
\* build either takes the default arm (Translate) or crashes, as the type 21
\* event did before its early return was added.
TranslateUndefined ==
    /\ pc = "send"
    /\ ns.type = "unlisted"
    /\ pc' = "crashed"
    /\ UNCHANGED <<cursor, monitor, native, context, registry, slot, history, pending_events,
                   modifiers, control_flow, mode, ns, sess, delegateCount>>

\* Shared::call_user_callback_with_event_or_store_in_pending, called by a window
\* delegate callback with the event it emits: with a callback in the slot the
\* event goes to call_with_event, otherwise to the back of pending_events.
DelegateCallback(ev, budget) ==
    /\ AtDelegatePoint
    /\ delegateCount < budget
    /\ delegateCount' = delegateCount + 1
    /\ LET origin == IF pc = "idle" THEN "idle" ELSE IF pc = "cb" THEN "incb" ELSE "direct"
           e == Stamped(<<ev>>, stamp, 0, origin, sess, windows, alive)[1]
       IN  /\ stamp' = stamp + 1
           /\ produced' = produced \cup {e}
           /\ IF user_callback # << >>
                THEN /\ callback' = user_callback
                     /\ user_callback' = take(user_callback)
                     /\ cur' = e
                     /\ ret_to' = IF pc = "next" THEN "innext" ELSE pc
                     /\ pc' = "cb"
                     /\ UNCHANGED pending_events
                ELSE /\ pending_events' = push_back(pending_events, e)
                     /\ UNCHANGED <<pc, slot>>
    /\ UNCHANGED <<cursor, monitor, native, context, registry, modifiers, control_flow, mode, ns, sess,
                   delivered, translations>>

\* A window delegate callback that emits ev, within the bound on delegate
\* callbacks.
WindowDelegateCallback(ev) == DelegateCallback(ev, MaxDelegate)

\* windowWillClose of window id: Shared::find_and_remove_window(id).
WindowWillClose(id) ==
    /\ AtDelegatePoint
    /\ delegateCount < MaxDelegate
    /\ delegateCount' = delegateCount + 1
    /\ find_and_remove_window(windows, alive, id) # windows
    /\ windows' = find_and_remove_window(windows, alive, id)
    /\ UNCHANGED <<cursor, monitor, native, context, alive, keyWindow, slot, history, pending_events,
                   modifiers, control_flow, pc, mode, ns, sess>>

\* The application drops its last strong reference to window id, between
\* dispatch calls or inside its callback: the window is destroyed, its registry
\* entry stays until the close notification is observed.
DropWindow(id) ==
    /\ pc \in {"idle", "cb"}
    /\ id \in alive
    /\ alive' = alive \ {id}
    /\ UNCHANGED <<cursor, monitor, native, context, windows, keyWindow, slot, history, pending_events,
                   modifiers, control_flow, pc, mode, ns, sess, delegateCount>>

\* A return whose wrapper writes every response into control_flow.
CallbackReturnOverwriting(r) ==
    /\ pc = "cb"
    /\ mode = "poll" => r = "Continue"
    /\ delivered' = Append(delivered, [ev |-> cur, resp |-> r, sess |-> sess, via |-> ret_to])
    /\ control_flow' = IF mode = "run" THEN r ELSE control_flow
    /\ user_callback' = callback
    /\ callback' = << >>
    /\ cur' = NoEvent
    /\ ret_to' = "none"
    /\ pc' = After(ret_to, mode, control_flow')
    /\ UNCHANGED <<cursor, monitor, native, context, registry, pending_events, modifiers, mode, ns, sess,
                   delegateCount, stamp, produced, translations>>

\* The user's callback returns r (poll_events' callback returns nothing, taken
\* as Continue): run_forever's wrapper sets control_flow on Break, and
\* call_with_event puts the pointer back into the slot.
CallbackReturn(r) ==
    /\ pc = "cb"
    /\ mode = "poll" => r = "Continue"
    /\ delivered' = Append(delivered, [ev |-> cur, resp |-> r, sess |-> sess, via |-> ret_to])
    /\ control_flow' = IF mode = "run" /\ r = "Break" THEN "Break" ELSE control_flow
    /\ user_callback' = callback
    /\ callback' = << >>
    /\ cur' = NoEvent
    /\ ret_to' = "none"
    /\ pc' = After(ret_to, mode, control_flow')
    /\ UNCHANGED <<cursor, monitor, native, context, registry, pending_events, modifiers, mode, ns, sess,
                   delegateCount, stamp, produced, translations>>

\* A teardown that also clears the pending queue.
TeardownClearingQueue ==
    /\ pc = "ret"
    /\ user_callback' = drop(user_callback)
    /\ pending_events' = << >>
    /\ pc' = "idle"
    /\ mode' = "none"
    /\ control_flow' = "Continue"
    /\ ns' = NilEvent
    /\ UNCHANGED <<cursor, monitor, native, context, registry, history, modifiers, callback,
                   cur, ret_to, sess, delegateCount>>

\* The end of poll_events and run_forever: UserCallback::drop empties the slot
\* and the call returns; its locals are gone.
Teardown ==
    /\ pc = "ret"
    /\ user_callback' = drop(user_callback)
    /\ pc' = "idle"
    /\ mode' = "none"
    /\ control_flow' = "Continue"
    /\ ns' = NilEvent
    /\ UNCHANGED <<cursor, monitor, native, context, registry, history, pending_events, modifiers, callback,
                   cur, ret_to, sess, delegateCount>>

Next ==
    \/ \E e \in NativeInputs : NativePost(e)
    \/ Wakeup
    \/ poll_events
    \/ run_forever
    \/ DispatchPanics
    \/ DropEventLoop
    \/ PendingPop
    \/ PendingEmpty
    \/ NextEventSome
    \/ NextEventNil
    \/ Translate
    \/ \E ev \in DelegateInputs : WindowDelegateCallback(ev)
    \/ \E id \in WindowIds : WindowWillClose(id)
    \/ \E r \in {"Continue", "Break"} : CallbackReturn(r)
    \/ Teardown

Spec == Init /\ [][Next]_vars

\* ------------------------------------------------- translator specification
\* run_forever on the main thread translating every kind of native event the
\* translator distinguishes, with a callback that always returns Continue.
TranslatorInit == Init /\ main_thread

TranslatorNext ==
    \/ \E e \in TranslatorInputs : NativePost(e)
    \/ run_forever
    \/ PendingPop
    \/ PendingEmpty
    \/ NextEventSome
    \/ Translate
    \/ TranslateUndefined
    \/ CallbackReturn("Continue")

TranslatorSpec == TranslatorInit /\ [][TranslatorNext]_vars

\* --------------------------------------------------- registry specification
\* Three windows are registered and alive, the first is key (the multiwindow
\* example); the application drops windows, close notifications arrive, and
\* run_forever translates events that name the windows.
RegistryInit ==
    /\ nativeQ = << >> /\ nativeCount = 0
    /\ windows = << 1, 2, 3 >> /\ alive = SeqToSet(windows) /\ keyWindow = 1
    /\ pending_events = << >> /\ user_callback = << >> /\ callback = << >>
    /\ modifiers = NoModifiers /\ control_flow = "Continue"
    /\ pc = "idle" /\ mode = "none" /\ ret_to = "none"
    /\ ns = NilEvent /\ cur = NoEvent /\ sess = 0 /\ delegateCount = 0
    /\ stamp = 0 /\ produced = {} /\ delivered = << >> /\ translations = << >>
    /\ main_thread = TRUE /\ panics = 0 /\ wakeups = << >>
    /\ MonitorInit
    /\ CursorInit

RegistryNext ==
    \/ \E e \in RegistryInputs : NativePost(e)
    \/ \E id \in WindowIds : DropWindow(id)
    \/ \E id \in WindowIds : WindowWillClose(id)
    \/ run_forever
    \/ PendingPop
    \/ PendingEmpty
    \/ NextEventSome
    \/ Translate
    \/ CallbackReturn("Continue")

RegistrySpec == RegistryInit /\ [][RegistryNext]_vars

\* ----------------------------------------------------- wakeup specification
\* run_forever on the main thread with a callback that always returns Continue,
\* while other threads call Proxy::wakeup and the window server posts events.
\* The loop's own steps are weakly fair: the main thread keeps running,
\* nextEventMatchingMask returns once an event is queued, and the callback
\* returns.
WakeupDuringRun == mode = "run" /\ Wakeup

LoopStep ==
    \/ PendingPop
    \/ PendingEmpty
    \/ NextEventSome
    \/ Translate
    \/ CallbackReturn("Continue")

WakeNext ==
    \/ \E e \in NativeInputs : NativePost(e)
    \/ run_forever
    \/ WakeupDuringRun
    \/ LoopStep

WakeSpec == TranslatorInit /\ [][WakeNext]_vars /\ WF_vars(LoopStep)

\* ------------------------------------------------------ input specification
\* Window 1 is registered and alive; it is the key window or no window of the
\* application is.  run_forever, on the main thread with a callback that always
\* returns Continue, translates pointer, key and application-defined events
\* while other threads call Proxy::wakeup.
InputInit ==
    /\ nativeQ = << >> /\ nativeCount = 0
    /\ windows = << 1 >> /\ alive = SeqToSet(windows) /\ keyWindow \in {0, 1}
    /\ pending_events = << >> /\ user_callback = << >> /\ callback = << >>
    /\ modifiers = NoModifiers /\ control_flow = "Continue"
    /\ pc = "idle" /\ mode = "none" /\ ret_to = "none"
    /\ ns = NilEvent /\ cur = NoEvent /\ sess = 0 /\ delegateCount = 0
    /\ stamp = 0 /\ produced = {} /\ delivered = << >> /\ translations = << >>
    /\ main_thread = TRUE /\ panics = 0 /\ wakeups = << >>
    /\ MonitorInit
    /\ CursorInit

InputNext ==
    \/ \E e \in InputInputs : NativePost(e)
    \/ Wakeup
    \/ run_forever
    \/ PendingPop
    \/ PendingEmpty
    \/ NextEventSome
    \/ Translate
    \/ CallbackReturn("Continue")

InputSpec == InputInit /\ [][InputNext]_vars

\* ------------------------------------------------------- poll specification
\* poll_events on the main thread, again and again, while the window server
\* posts a bounded number of native events and window delegates fire a bounded
\* number of times.  The main thread keeps running and the user's callback
\* returns: the steps of the call are weakly fair.
PollStep ==
    \/ PendingPop
    \/ PendingEmpty
    \/ NextEventSome
    \/ NextEventNil
    \/ Translate
    \/ CallbackReturn("Continue")
    \/ Teardown

PollNext ==
    \/ \E e \in NativeInputs : NativePost(e)
    \/ \E ev \in DelegateInputs : WindowDelegateCallback(ev)
    \/ poll_events
    \/ PollStep

PollSpec == TranslatorInit /\ [][PollNext]_vars /\ WF_vars(PollStep)

\* ----------------------------------------------------- resize specification
\* run_forever on the main thread with a callback that always returns Continue.
\* nextEventMatchingMask blocks during a resize and the window delegate fires
\* from inside it, also while the user's callback runs.
ResizeNext ==
    \/ \E e \in NativeInputs : NativePost(e)
    \/ \E ev \in DelegateInputs : DelegateCallback(ev, MaxResizeCallbacks)
    \/ run_forever
    \/ PendingPop
    \/ PendingEmpty
    \/ NextEventSome
    \/ Translate
    \/ CallbackReturn("Continue")

ResizeSpec == TranslatorInit /\ [][ResizeNext]_vars

\* ------------------------------------------------- monitor list (Linux, X11)
\* Threads call XConnection::available_monitors and
\* invalidate_cached_monitor_list while the X server changes the monitor
\* configuration.  The dispatch state takes no part.
dispatch == <<nativeQ, nativeCount, windows, alive, keyWindow, pending_events,
              user_callback, modifiers, control_flow, pc, mode, ret_to, callback,
              ns, cur, sess, delegateCount, stamp, produced, delivered, translations,
              main_thread, panics, wakeups>>

\* A rectangle (util::AaRect): position and size.
AaRect(x, y, width, height) == [x |-> x, y |-> y, width |-> width, height |-> height]

\* What XRRGetMonitors reports under configuration cfg, each monitor cfg + 2
\* wide, one high, side by side from the left: two monitors, the second
\* primary; or one monitor, not marked primary; or two monitors, the first
\* primary but virtual (XRRGetOutputInfo yields no output info for it); or one
\* virtual monitor only.
NativeMonitors(cfg) ==
    LET w == cfg + 2
    IN  CASE cfg % 4 = 0 ->
                << [primary |-> FALSE, info |-> TRUE, rect |-> AaRect(0, 0, w, 1)],
                   [primary |-> TRUE, info |-> TRUE, rect |-> AaRect(w, 0, w, 1)] >>
          [] cfg % 4 = 1 ->
                << [primary |-> FALSE, info |-> TRUE, rect |-> AaRect(0, 0, w, 1)] >>
          [] cfg % 4 = 2 ->
                << [primary |-> TRUE, info |-> FALSE, rect |-> AaRect(0, 0, w, 1)],
                   [primary |-> FALSE, info |-> TRUE, rect |-> AaRect(w, 0, w, 1)] >>
          [] OTHER ->
                << [primary |-> FALSE, info |-> FALSE, rect |-> AaRect(0, 0, w, 1)] >>

\* The window rectangles get_monitor_for_window is called with: None, or a
\* rectangle one high on the monitors' row.
WindowRects ==
    { << >>, << AaRect(1, 0, 2, 1) >>, << AaRect(1, 0, 3, 1) >>, << AaRect(0, 0, 3, 1) >>,
      << AaRect(4, 0, 1, 1) >> }

\* MonitorHandle::from_repr: None when get_output_info fails, otherwise the
\* handle with the id, the size and position (and the rectangle made of them)
\* and the primary flag it was given.
from_repr(id, repr, primary) ==
    IF repr.info
      THEN << [id |-> id, dimensions |-> <<repr.rect.width, repr.rect.height>>,
               position |-> <<repr.rect.x, repr.rect.y>>, primary |-> primary,
               rect |-> repr.rect] >>
      ELSE << >>

\* The end of query_monitor_list: without a primary monitor the first one is
\* made primary.
pick_primary(available, has_primary) ==
    IF ~has_primary /\ available # << >>
      THEN [available EXCEPT ![1].primary = TRUE]
      ELSE available

\* The overlap of two intervals of the given starts and lengths.
Overlap1(a, alen, b, blen) ==
    LET lo == IF a > b THEN a ELSE b
        hi == IF a + alen < b + blen THEN a + alen ELSE b + blen
    IN  IF hi > lo THEN hi - lo ELSE 0

\* AaRect::get_overlapping_area: the area two rectangles share.
get_overlapping_area(r, other) ==
    Overlap1(r.x, r.width, other.x, other.width) * Overlap1(r.y, r.height, other.y, other.height)

\* The loop of get_monitor_for_window from monitor i on: [matched, largest].
RECURSIVE MatchFrom(_, _, _, _, _)
MatchFrom(monitors, rect, i, matched, largest_overlap) ==
    IF i > Len(monitors)
      THEN matched
      ELSE LET overlapping_area == get_overlapping_area(rect, monitors[i].rect)
           IN  IF overlapping_area > largest_overlap
                 THEN MatchFrom(monitors, rect, i + 1, monitors[i], overlapping_area)
                 ELSE MatchFrom(monitors, rect, i + 1, matched, largest_overlap)

\* A matching loop that takes a monitor whose overlap equals the largest so far.
RECURSIVE MatchFromLastTie(_, _, _, _, _)
MatchFromLastTie(monitors, rect, i, matched, largest_overlap) ==
    IF i > Len(monitors)
      THEN matched
      ELSE LET overlapping_area == get_overlapping_area(rect, monitors[i].rect)
           IN  IF overlapping_area >= largest_overlap
                 THEN MatchFromLastTie(monitors, rect, i + 1, monitors[i], overlapping_area)
                 ELSE MatchFromLastTie(monitors, rect, i + 1, matched, largest_overlap)

\* get_monitor_for_window preferring the later monitor on equal overlaps.
get_monitor_for_window_last_tie(monitors, window_rect) ==
    IF monitors = << >>
      THEN << >>
      ELSE IF window_rect = << >>
             THEN << monitors[1] >>
             ELSE << MatchFromLastTie(monitors, window_rect[1], 1, monitors[1], 0) >>

\* get_monitor_for_window on the list available_monitors returned: << >> is
\* the panic of expect() on an empty list; without a window rectangle the
\* default, the first monitor; otherwise the monitor the loop matched.
get_monitor_for_window(monitors, window_rect) ==
    IF monitors = << >>
      THEN << >>
      ELSE IF window_rect = << >>
             THEN << monitors[1] >>
             ELSE << MatchFrom(monitors, window_rect[1], 1, monitors[1], 0) >>

\* primary_monitor on the list available_monitors returned: the first monitor
\* with the primary flag; << >> is the panic of expect() when there is none.
primary_monitor(monitors) ==
    LET flagged == SelectSeq(monitors, LAMBDA m : m.primary)
    IN  IF flagged = << >> THEN << >> ELSE << flagged[1] >>

\* The configuration at the latest completed invalidation (0: none yet).
LastInvalidation == IF invalidations = << >> THEN 0 ELSE invalidations[Len(invalidations)]

Idle(t) == [pc |-> "idle", op |-> "none", window_rect |-> << >>, resources |-> << >>,
            monitor_index |-> 0, available |-> << >>, has_primary |-> FALSE,
            cfg |-> 0, result |-> << >>, hit |-> FALSE, floor |-> 0]

\* The X server changes the monitor configuration.
ConfigChange ==
    /\ screen < MaxConfigChanges
    /\ screen' = screen + 1
    /\ UNCHANGED <<cursor, dispatch, MONITORS, monitors_lock, call, monitorCalls, queries, returned,
                   invalidations>>

\* Thread t calls available_monitors.
CallAvailableMonitors(t) ==
    /\ call[t].pc = "idle"
    /\ monitorCalls < MaxMonitorCalls
    /\ monitorCalls' = monitorCalls + 1
    /\ call' = [call EXCEPT ![t].pc = "lock", ![t].op = "available_monitors",
                            ![t].floor = LastInvalidation]
    /\ UNCHANGED <<cursor, dispatch, MONITORS, monitors_lock, screen, queries, returned, invalidations>>

\* Thread t calls primary_monitor, which starts with available_monitors.
CallPrimaryMonitor(t) ==
    /\ call[t].pc = "idle"
    /\ monitorCalls < MaxMonitorCalls
    /\ monitorCalls' = monitorCalls + 1
    /\ call' = [call EXCEPT ![t].pc = "lock", ![t].op = "primary_monitor",
                            ![t].floor = LastInvalidation]
    /\ UNCHANGED <<cursor, dispatch, MONITORS, monitors_lock, screen, queries, returned, invalidations>>

\* Thread t calls get_monitor_for_window(window_rect), which starts with
\* available_monitors.
CallGetMonitorForWindow(t, window_rect) ==
    /\ call[t].pc = "idle"
    /\ monitorCalls < MaxMonitorCalls
    /\ monitorCalls' = monitorCalls + 1
    /\ call' = [call EXCEPT ![t].pc = "lock", ![t].op = "get_monitor_for_window",
                            ![t].window_rect = window_rect,
                            ![t].floor = LastInvalidation]
    /\ UNCHANGED <<cursor, dispatch, MONITORS, monitors_lock, screen, queries, returned, invalidations>>

\* Thread t calls invalidate_cached_monitor_list.
CallInvalidate(t) ==
    /\ call[t].pc = "idle"
    /\ monitorCalls < MaxMonitorCalls
    /\ monitorCalls' = monitorCalls + 1
    /\ call' = [call EXCEPT ![t].pc = "ilock", ![t].op = "invalidate"]
    /\ UNCHANGED <<cursor, dispatch, MONITORS, monitors_lock, screen, queries, returned, invalidations>>

\* MONITORS.lock() in either function: the thread waits until the mutex is free.
Lock(t) ==
    /\ call[t].pc \in {"lock", "ilock"}
    /\ monitors_lock = 0
    /\ monitors_lock' = t
    /\ call' = [call EXCEPT ![t].pc = IF call[t].pc = "lock" THEN "locked" ELSE "take"]
    /\ UNCHANGED <<cursor, dispatch, MONITORS, screen, monitorCalls, queries, returned, invalidations>>

\* available_monitors with the cache filled: as_ref().cloned().
CacheHit(t) ==
    /\ call[t].pc = "locked"
    /\ MONITORS # << >>
    /\ call' = [call EXCEPT ![t].pc = "return", ![t].result = MONITORS[1], ![t].hit = TRUE]
    /\ UNCHANGED <<cursor, dispatch, MONITORS, monitors_lock, screen, monitorCalls, queries, returned,
                   invalidations>>

\* available_monitors with the cache empty: query_monitor_list starts, the X
\* server reports the monitors of the current configuration.
QueryBegin(t) ==
    /\ call[t].pc = "locked"
    /\ MONITORS = << >>
    /\ call' = [call EXCEPT ![t].pc = "build", ![t].resources = NativeMonitors(screen),
                            ![t].monitor_index = 0,
                            ![t].available = << >>, ![t].has_primary = FALSE,
                            ![t].cfg = screen]
    /\ UNCHANGED <<cursor, dispatch, MONITORS, monitors_lock, screen, monitorCalls, queries, returned,
                   invalidations>>

\* A query that builds the list inside the cache.
QueryPushInPlace(t) ==
    /\ call[t].pc = "build"
    /\ call[t].monitor_index < Len(call[t].resources)
    /\ LET repr == call[t].resources[call[t].monitor_index + 1]
       IN  /\ call' = [call EXCEPT
                  ![t].has_primary = @ \/ repr.primary,
                  ![t].available = @ \o from_repr(call[t].monitor_index, repr, repr.primary),
                  ![t].monitor_index = @ + 1]
           /\ MONITORS' = << call'[t].available >>
    /\ UNCHANGED <<cursor, dispatch, monitors_lock, screen, monitorCalls, queries, returned,
                   invalidations>>

\* One turn of query_monitor_list's loop: has_primary takes in the monitor's
\* primary flag, then the handle from_repr makes of it, if any, is pushed onto
\* the local vector `available`.
QueryPush(t) ==
    /\ call[t].pc = "build"
    /\ call[t].monitor_index < Len(call[t].resources)
    /\ LET repr == call[t].resources[call[t].monitor_index + 1]
       IN  call' = [call EXCEPT
               ![t].has_primary = @ \/ repr.primary,
               ![t].available = @ \o from_repr(call[t].monitor_index, repr, repr.primary),
               ![t].monitor_index = @ + 1]
    /\ UNCHANGED <<cursor, dispatch, MONITORS, monitors_lock, screen, monitorCalls, queries, returned,
                   invalidations>>

\* query_monitor_list after its loop: the primary fallback, then it returns
\* `available`.
QueryReturn(t) ==
    /\ call[t].pc = "build"
    /\ call[t].monitor_index = Len(call[t].resources)
    /\ LET list == pick_primary(call[t].available, call[t].has_primary)
       IN  /\ call' = [call EXCEPT ![t].pc = "store", ![t].available = list]
           /\ queries' = Append(queries, [cfg |-> call[t].cfg, epoch |-> Len(invalidations),
                                          thread |-> t, result |-> list])
    /\ UNCHANGED <<cursor, dispatch, MONITORS, monitors_lock, screen, monitorCalls, returned,
                   invalidations>>

\* A store with caching disabled.
CacheStoreDisabled(t) ==
    /\ call[t].pc = "store"
    /\ call' = [call EXCEPT ![t].pc = "return", ![t].result = call[t].available,
                            ![t].hit = FALSE]
    /\ UNCHANGED <<cursor, dispatch, MONITORS, monitors_lock, screen, monitorCalls, queries, returned,
                   invalidations>>

\* The closure of available_monitors after the query: the cache becomes a clone
\* of the list unless caching is disabled.
CacheStore(t) ==
    /\ call[t].pc = "store"
    /\ MONITORS' = IF ~DISABLE_MONITOR_LIST_CACHING THEN << call[t].available >> ELSE MONITORS
    /\ call' = [call EXCEPT ![t].pc = "return", ![t].result = call[t].available,
                            ![t].hit = FALSE]
    /\ UNCHANGED <<cursor, dispatch, monitors_lock, screen, monitorCalls, queries, returned,
                   invalidations>>

\* available_monitors returns: the guard is dropped and the caller has its
\* list; primary_monitor and get_monitor_for_window then pick their monitor
\* from it, or panic.
Return(t) ==
    /\ call[t].pc = "return"
    /\ monitors_lock' = 0
    /\ returned' = Append(returned,
          [thread |-> t, op |-> call[t].op, list |-> call[t].result,
           window_rect |-> call[t].window_rect,
           found |-> CASE call[t].op = "primary_monitor" -> primary_monitor(call[t].result)
                       [] call[t].op = "get_monitor_for_window" ->
                             get_monitor_for_window(call[t].result, call[t].window_rect)
                       [] OTHER -> << >>,
           epoch |-> Len(invalidations), hit |-> call[t].hit, floor |-> call[t].floor])
    /\ call' = [call EXCEPT ![t] = Idle(t)]
    /\ UNCHANGED <<cursor, dispatch, MONITORS, screen, monitorCalls, queries, invalidations>>

\* invalidate_cached_monitor_list under the lock: take() leaves None, the guard
\* is dropped and the function returns.
InvalidateTake(t) ==
    /\ call[t].pc = "take"
    /\ MONITORS' = take(MONITORS)
    /\ monitors_lock' = 0
    /\ invalidations' = Append(invalidations, screen)
    /\ call' = [call EXCEPT ![t] = Idle(t)]
    /\ UNCHANGED <<cursor, dispatch, screen, monitorCalls, queries, returned>>

MonitorNext ==
    \/ ConfigChange
    \/ \E t \in Threads : CallAvailableMonitors(t)
    \/ \E t \in Threads : CallInvalidate(t)
    \/ \E t \in Threads : Lock(t)
    \/ \E t \in Threads : CacheHit(t)
    \/ \E t \in Threads : QueryBegin(t)
    \/ \E t \in Threads : QueryPush(t)
    \/ \E t \in Threads : QueryReturn(t)
    \/ \E t \in Threads : CacheStore(t)
    \/ \E t \in Threads : Return(t)
    \/ \E t \in Threads : InvalidateTake(t)

MonitorSpec == Init /\ [][MonitorNext]_vars

\* One thread looking monitors up, primary_monitor and get_monitor_for_window,
\* while the configuration changes and the cache is invalidated.
LookupNext ==
    \/ ConfigChange
    \/ CallPrimaryMonitor(1)
    \/ \E window_rect \in WindowRects : CallGetMonitorForWindow(1, window_rect)
    \/ CallInvalidate(1)
    \/ Lock(1)
    \/ CacheHit(1)
    \/ QueryBegin(1)
    \/ QueryPush(1)
    \/ QueryReturn(1)
    \/ CacheStore(1)
    \/ Return(1)
    \/ InvalidateTake(1)

LookupSpec == Init /\ [][LookupNext]_vars

\* ------------------------------------------------- macOS window: hide_cursor
\* Thread t calls hide_cursor(hide) on the window (UnownedWindow is Send and
\* Sync, so any thread may).
hide_cursor(t, hide) ==
    /\ hider[t].pc = "idle"
    /\ hideCalls < MaxHideCalls
    /\ hideCalls' = hideCalls + 1
    /\ hider' = [hider EXCEPT ![t] = [pc |-> "load", hide |-> hide]]
    /\ UNCHANGED <<dispatch, monitor, cursor_hidden, hide_counter>>

\* if hide != self.cursor_hidden.load(Acquire): the call goes on to the
\* message when the flag differs from the argument and returns otherwise.
CursorHiddenLoad(t) ==
    /\ hider[t].pc = "load"
    /\ hider' = [hider EXCEPT ![t].pc = IF hider[t].hide # cursor_hidden THEN "msg_send"
                                                                         ELSE "idle"]
    /\ UNCHANGED <<dispatch, monitor, cursor_hidden, hide_counter, hideCalls>>

\* msg_send![cursor_class, hide] or msg_send![cursor_class, unhide]: NSCursor
\* counts the hides up and down (not below 0).
MsgSend(t) ==
    /\ hider[t].pc = "msg_send"
    /\ hide_counter' = IF hider[t].hide THEN hide_counter + 1
                       ELSE IF hide_counter > 0 THEN hide_counter - 1 ELSE 0
    /\ hider' = [hider EXCEPT ![t].pc = "store"]
    /\ UNCHANGED <<dispatch, monitor, cursor_hidden, hideCalls>>

\* self.cursor_hidden.store(hide, Release), and hide_cursor returns.
CursorHiddenStore(t) ==
    /\ hider[t].pc = "store"
    /\ cursor_hidden' = hider[t].hide
    /\ hider' = [hider EXCEPT ![t].pc = "idle"]
    /\ UNCHANGED <<dispatch, monitor, hide_counter, hideCalls>>

CursorNext ==
    \/ \E t \in Threads, hide \in BOOLEAN : hide_cursor(t, hide)
    \/ \E t \in Threads : CursorHiddenLoad(t)
    \/ \E t \in Threads : MsgSend(t)
    \/ \E t \in Threads : CursorHiddenStore(t)

CursorSpec == Init /\ [][CursorNext]_vars

\* ------------------------------------------------------------------- claims
IsDelivered(e) == \E i \in DOMAIN delivered : delivered[i].ev = e
InQueue(e) == \E i \in DOMAIN pending_events : pending_events[i] = e
InCallback(e) == pc = "cb" /\ cur = e

\* C1: poll_events returns only when the native source has reported that no
\* native event is pending: at its return the last answer of
\* nextEventMatchingMask was nil, so no dequeued event that translated to
\* nothing ended the call early.
C1_PollReturnsOnlyOnEmptySource ==
    (pc = "ret" /\ mode = "poll") => ns.type = "nil"

\* C2: once the user callback has returned Break inside run_forever, it is not
\* invoked again during that run_forever call; in particular the loop itself
\* (the pending drain, the delivery of a translated event) makes no further
\* invocation.
C2_NoInvocationAfterBreak ==
    ~ \E i, j \in DOMAIN delivered :
        /\ i < j
        /\ delivered[i].sess = delivered[j].sess
        /\ delivered[i].resp = "Break"
        /\ delivered[j].via \in {"drain", "loop"}

LastVia == IF delivered = << >> THEN "none" ELSE delivered[Len(delivered)].via

C4_ReturnsOnlyAfterBreak ==
    (pc = "ret" /\ mode = "run") =>
        /\ control_flow = "Break"
        /\ \E i \in DOMAIN delivered : delivered[i].sess = sess /\ delivered[i].resp = "Break"

\* C4 witness: run_forever is at its return after a native event of this call
\* translated to nothing and the registry lost its window.
C4_Witness ==
    /\ pc = "ret" /\ mode = "run"
    /\ windows = << >>
    /\ \E k \in DOMAIN translations :
          translations[k].ret = << >> /\ translations[k].session = sess

\* C5: canonical events are delivered in the order they were produced: of two
\* callback invocations the earlier one is on the event produced earlier.
C5_DeliveredInProductionOrder ==
    \A i, j \in DOMAIN delivered :
        i < j => delivered[i].ev.stamp < delivered[j].ev.stamp

\* C6: the pending queue is FIFO and drained before the next native event is
\* requested: whenever the loop is about to call nextEventMatchingMask the queue
\* is empty, the events delivered from the queue were delivered in the order
\* they were appended, and what is still queued was appended after them.
C6_QueueDrainedBeforeNativeRequest ==
    /\ pc = "next" => pending_events = << >>
    /\ \A i, j \in DOMAIN delivered :
          (i < j /\ delivered[i].via = "drain" /\ delivered[j].via = "drain") =>
              delivered[i].ev.stamp < delivered[j].ev.stamp
    /\ \A i, j \in DOMAIN pending_events :
          i < j => pending_events[i].stamp < pending_events[j].stamp
    /\ \A i \in DOMAIN delivered : \A k \in DOMAIN pending_events :
          delivered[i].via = "drain" => delivered[i].ev.stamp < pending_events[k].stamp

\* C6 witness: the loop is about to ask for a native event after the drain has
\* delivered two queued events.
C6_Witness ==
    /\ pc = "next"
    /\ \E i, j \in DOMAIN delivered :
          i < j /\ delivered[i].via = "drain" /\ delivered[j].via = "drain"
             /\ delivered[i].sess = sess /\ delivered[j].sess = sess

\* The session has not asked for a native event yet: it is in its first drain.
InFirstDrain ==
    /\ ns.type = "nil"
    /\ pc = "drain" \/ (pc = "cb" /\ ret_to = "drain")

\* C7: an event a delegate callback produces between sessions is stored in the
\* pending queue and never dropped: it stays queued until the next session,
\* whose first drain delivers it before the session asks for a native event or
\* delivers anything that did not come from the queue.
C7_IdleEventsDeliveredFirst ==
    \A e \in produced :
        e.origin = "idle" =>
            \/ pc \in {"idle", "dropped"} /\ sess = e.born /\ InQueue(e)
            \/ InFirstDrain /\ sess = e.born + 1 /\ (InQueue(e) \/ InCallback(e))
            \/ \E i \in DOMAIN delivered :
                  /\ delivered[i].ev = e
                  /\ delivered[i].sess = e.born + 1
                  /\ delivered[i].via = "drain"
                  /\ \A j \in 1..i :
                        delivered[j].sess = delivered[i].sess => delivered[j].via = "drain"

\* C7 witness: an event stored between sessions has been delivered and the
\* session has gone on to dequeue a native event.
C7_Witness ==
    /\ pc = "send"
    /\ \E i \in DOMAIN delivered :
          delivered[i].ev.origin = "idle" /\ delivered[i].sess = sess

\* The events one translation produced, in production order, and the callback
\* invocations made so far on events of the native event with this id.
FanOut(t) == t.ret \o t.queued
DeliveredOf(id) == SelectSeq(delivered, LAMBDA d : d.ev.origin = "trans" /\ d.ev.src = id)
Holders(e) ==
    Cardinality({i \in DOMAIN delivered : delivered[i].ev = e})
        + Cardinality({i \in DOMAIN pending_events : pending_events[i] = e})
        + (IF InCallback(e) THEN 1 ELSE 0)

IsBothAxesMove(t) ==
    /\ t.ns.type = "NSMouseMoved"
    /\ t.ns.dx # 0 /\ t.ns.dy # 0
    /\ t.registered = 1
    /\ t.window # 0 /\ t.key = t.window

Kinds(events) == [i \in DOMAIN events |-> events[i].kind]
Payloads(events) == [i \in DOMAIN events |-> <<events[i].kind, events[i].win, events[i].arg>>]

\* C9 as stated: such a mouse move translates to four events, CursorMoved
\* returned and Motion axis 0, Motion axis 1 and MouseMotion queued.
C9_MouseMoveYieldsCursorMovedFirst ==
    \A k \in DOMAIN translations :
        IsBothAxesMove(translations[k]) =>
            /\ Kinds(translations[k].ret) = << "CursorMoved" >>
            /\ Kinds(translations[k].queued) = << "Motion", "Motion", "MouseMotion" >>

\* C9 as amended: such a mouse move translates to exactly three device events
\* and no CursorMoved: Motion axis 0 is returned by the translation, Motion
\* axis 1 and the aggregate MouseMotion are appended to the pending queue, and
\* the callback invocations on them come in that order.
C9_MouseMoveYieldsThreeDeviceEvents ==
    \A k \in DOMAIN translations :
        IsBothAxesMove(translations[k]) =>
            LET t == translations[k]
                d == DeliveredOf(t.ns.id)
            IN  /\ Payloads(t.ret) = << <<"Motion", 0, <<0, t.ns.dx>> >> >>
                /\ Payloads(t.queued) =
                      << <<"Motion", 0, <<1, t.ns.dy>> >>,
                         <<"MouseMotion", 0, <<t.ns.dx, t.ns.dy>> >> >>
                /\ Len(d) <= 3
                /\ \A i \in DOMAIN d : d[i].ev = FanOut(t)[i]

\* C9 witness: all the events of such a mouse move have been delivered.
C9_Witness ==
    \E k \in DOMAIN translations :
        /\ IsBothAxesMove(translations[k])
        /\ Len(DeliveredOf(translations[k].ns.id)) = Len(FanOut(translations[k]))

\* C10: a native event whose window is not a live registered window at
\* translation time yields nothing, returned or queued, so every WindowEvent
\* delivered from a translation names a window that was registered and alive
\* when it was translated.
C10_UnregisteredWindowYieldsNothing ==
    /\ \A k \in DOMAIN translations :
          translations[k].window = 0 => FanOut(translations[k]) = << >>
    /\ \A i \in DOMAIN delivered :
          (delivered[i].ev.origin = "trans" /\ IsWindowEvent(delivered[i].ev)) =>
              delivered[i].ev.routed

\* The modifiers whose membership in the event's flags differs from the state
\* tracked before the translation, in the order shift, ctrl, logo, alt.
KeyOrder == << "shift", "ctrl", "logo", "alt" >>
ChangedKeys(t) == SelectSeq(KeyOrder, LAMBDA k : (k \in t.ns.flags) # t.mods[k])
IsFlagsChanged(t) == t.ns.type = "NSFlagsChanged"

\* C11: a flags-changed event yields exactly one KeyboardInput per modifier
\* whose membership changed, Pressed if it is now held and Released if not, in
\* the order shift, ctrl, logo, alt; the first is returned by the translation
\* and the others are appended in that order to the pending queue, which holds
\* each of them until it is delivered.
C11_OneEventPerChangedModifier ==
    \A n \in DOMAIN translations :
        IsFlagsChanged(translations[n]) =>
            LET t == translations[n]
                ch == ChangedKeys(t)
            IN  /\ Len(FanOut(t)) = Len(ch)
                /\ \A i \in DOMAIN ch :
                      /\ FanOut(t)[i].kind = "KeyboardInput"
                      /\ FanOut(t)[i].arg[4] = ch[i]
                      /\ FanOut(t)[i].arg[1] =
                            (IF ch[i] \in t.ns.flags THEN "Pressed" ELSE "Released")
                      /\ Holders(FanOut(t)[i]) = 1
                /\ Len(t.ret) = (IF ch = << >> THEN 0 ELSE 1)
                /\ \A i \in DOMAIN DeliveredOf(t.ns.id) :
                      DeliveredOf(t.ns.id)[i].ev = FanOut(t)[i]

\* C11 witness: one flags-changed event released two modifiers and pressed the
\* two others, and its four events have been delivered.
C11_Witness ==
    \E n \in DOMAIN translations :
        /\ IsFlagsChanged(translations[n])
        /\ Len(ChangedKeys(translations[n])) = 4
        /\ \E i, j \in 1..4 : /\ FanOut(translations[n])[i].arg[1] = "Pressed"
                              /\ FanOut(translations[n])[j].arg[1] = "Released"
        /\ Len(DeliveredOf(translations[n].ns.id)) = 4

\* The events synthesized for modifier key with the given state, as
\* (translation, position) pairs, and the flags of the latest snapshot.
Synthesized(key, state) ==
    { p \in (DOMAIN translations) \X (1..4) :
        /\ IsFlagsChanged(translations[p[1]])
        /\ p[2] <= Len(FanOut(translations[p[1]]))
        /\ FanOut(translations[p[1]])[p[2]].arg[4] = key
        /\ FanOut(translations[p[1]])[p[2]].arg[1] = state }
Snapshots == { n \in DOMAIN translations : IsFlagsChanged(translations[n]) }
HeldAt(n, key) == key \in translations[n].ns.flags
HeldNow(key) ==
    \E n \in Snapshots : HeldAt(n, key) /\ \A m \in Snapshots : m <= n

\* C12: over any sequence of modifier-flag snapshots, for each modifier the
\* Pressed events minus the Released events equal the net change of its held
\* state from all-released (1 if the latest snapshot holds it, 0 otherwise),
\* and each snapshot synthesizes an event for the modifier exactly when its
\* held state differs from the previous snapshot's, so that Pressed and
\* Released alternate.
C12_PressedMinusReleasedIsNetChange ==
    \A key \in ModifierKeys :
        /\ Cardinality(Synthesized(key, "Pressed")) - Cardinality(Synthesized(key, "Released"))
              = (IF HeldNow(key) THEN 1 ELSE 0)
        /\ \A n \in Snapshots :
              LET before == \E m \in Snapshots :
                                /\ m < n /\ HeldAt(m, key)
                                /\ \A l \in Snapshots : l < n => l <= m
              IN  /\ (HeldAt(n, key) /\ ~before) <=>
                        (\E p \in Synthesized(key, "Pressed") : p[1] = n)
                  /\ (~HeldAt(n, key) /\ before) <=>
                        (\E p \in Synthesized(key, "Released") : p[1] = n)

\* C12 witness: a modifier was pressed by one snapshot and released by the next.
C12_Witness ==
    \E key \in ModifierKeys :
        /\ Synthesized(key, "Pressed") # {}
        /\ Synthesized(key, "Released") # {}

\* C13: the step that translates a flags-changed event leaves each tracked
\* modifier equal to the corresponding bit of the event's flags, delivered or
\* not, and no other step changes the tracked modifier state.
C13_ModifierStateTracksFlags ==
    [][ IF translations' # translations /\ ns.type = "NSFlagsChanged"
          THEN \A k \in ModifierKeys : modifiers'[k] = (k \in ns.flags)
          ELSE modifiers' = modifiers ]_vars

\* C13 witness: a flags-changed event has been translated, the tracked state
\* holds a modifier, and an event it synthesized is still in the pending queue.
C13_Witness ==
    /\ translations # << >>
    /\ IsFlagsChanged(translations[Len(translations)])
    /\ \E k \in ModifierKeys : modifiers[k]
    /\ modifiers = [k \in ModifierKeys |-> k \in translations[Len(translations)].ns.flags]
    /\ \E i \in DOMAIN pending_events :
          pending_events[i].src = translations[Len(translations)].ns.id

\* The native event types the translator has no arm for, or no arm that yields
\* an event.
UnsupportedTypes == {"type21", "NSLeftMouseDown", "unlisted"}

\* C20: an event of a type unknown to or unsupported by the translator yields
\* no canonical event and never an error: the translation completes, returns
\* nothing and queues nothing.
C20_UnsupportedTypesYieldNothing ==
    /\ pc # "crashed"
    /\ \A n \in DOMAIN translations :
          translations[n].ns.type \in UnsupportedTypes => FanOut(translations[n]) = << >>

\* C14: wakeup returns the error EventLoopClosed exactly when the EventLoop its
\* proxy was created from no longer exists, and Ok while it exists.
C14_WakeupFailsOnceLoopIsGone ==
    \A i \in DOMAIN wakeups :
        wakeups[i].result = (IF wakeups[i].exists THEN "Ok" ELSE "EventLoopClosed")

AwakenedDelivered ==
    Cardinality({ i \in DOMAIN delivered : delivered[i].ev.kind = "Awakened" })

\* C15: of K >= 1 wakeup calls made while run_forever is running with a
\* callback that returns Continue, at least one and at most K Awakened events
\* are delivered: never more than the calls made, and eventually at least one.
C15_WakeupsAreObserved ==
    /\ [](AwakenedDelivered <= Len(wakeups))
    /\ (Len(wakeups) >= 1) ~> (AwakenedDelivered >= 1)

\* C15 witness: two wakeup calls were made and an Awakened event was delivered.
C15_Witness ==
    /\ Len(wakeups) = 2
    /\ AwakenedDelivered >= 1

\* The synthetic event of wakeup call w is accounted for: still in the native
\* queue, dequeued and about to be translated, or translated into exactly one
\* Awakened event that the callback is running on or has been delivered.
WakeupAccountedFor(w) ==
    \/ \E k \in DOMAIN nativeQ : nativeQ[k].id = w.id
    \/ ns.id = w.id /\ \A n \in DOMAIN translations : translations[n].ns.id # w.id
    \/ \E n \in DOMAIN translations :
          /\ translations[n].ns.id = w.id
          /\ Kinds(translations[n].ret) = << "Awakened" >>
          /\ translations[n].queued = << >>
          /\ Holders(translations[n].ret[1]) = 1
          /\ ~InQueue(translations[n].ret[1])

\* C16: wakeup may be called at any point of the loop, any number of times: no
\* wakeup is lost (see WakeupAccountedFor), and the call itself changes nothing
\* of the dispatch state (pending queue, callback slot, modifier state, window
\* registry, the loop's position).
C16_NoWakeupLost ==
    /\ [](\A i \in DOMAIN wakeups : WakeupAccountedFor(wakeups[i]))
    /\ [][wakeups' # wakeups =>
            UNCHANGED <<pending_events, user_callback, callback, cur, modifiers,
                        windows, pc, control_flow>>]_vars

\* C16 witness: two wakeup calls were made and their Awakened events have been
\* delivered by two different dispatch sessions.
C16_Witness ==
    /\ Len(wakeups) = 2
    /\ AwakenedDelivered = 2
    /\ \E i, j \in DOMAIN delivered :
          /\ i < j
          /\ delivered[i].ev.kind = "Awakened" /\ delivered[j].ev.kind = "Awakened"
          /\ delivered[i].sess < delivered[j].sess

\* poll_events is at its return and this call dequeued no native event: the
\* native source had none when the call was made and none arrived.
PollFoundNothing ==
    /\ pc = "ret" /\ mode = "poll"
    /\ \A n \in DOMAIN translations : translations[n].session # sess

C18_OffMainThreadDispatchPanics ==
    /\ [](~main_thread =>
            /\ user_callback = << >> /\ callback = << >>
            /\ delivered = << >> /\ translations = << >>
            /\ ns = NilEvent /\ Len(nativeQ) = nativeCount
            /\ sess = 0 /\ mode = "none")
    /\ [][panics' # panics => UNCHANGED <<pending_events, nativeQ, user_callback>>]_vars

\* C18 witness: two dispatch calls have panicked while a native event and a
\* stored delegate event were waiting.
C18_Witness ==
    /\ ~main_thread
    /\ panics = 2
    /\ nativeQ # << >>
    /\ pending_events # << >>

\* C19: the callback slot is Some only during a dispatch call: with no call
\* active the slot is None, and a pointer in the slot, or taken out of it by
\* call_with_event, is the pointer to the callback of the call in progress.
C19_SlotHoldsLiveCallback ==
    /\ mode = "none" => (user_callback = << >> /\ callback = << >>)
    /\ user_callback # << >> => (user_callback = << sess >> /\ mode # "none")
    /\ callback # << >> => (callback = << sess >> /\ pc = "cb" /\ user_callback = << >>)

\* C19 witness: two dispatch calls have returned after invoking their
\* callbacks, and the slot is empty.
C19_Witness ==
    /\ pc = "idle" /\ sess = 2
    /\ user_callback = << >>
    /\ \E i, j \in DOMAIN delivered : delivered[i].sess = 1 /\ delivered[j].sess = 2

C22_DestroyedWindowNeverRouted ==
    \A n \in DOMAIN translations :
        ~translations[n].live =>
            /\ translations[n].window = 0
            /\ \A i \in DOMAIN FanOut(translations[n]) :
                  ~IsWindowEvent(FanOut(translations[n])[i])

CompleteList(cfg) ==
    LET n == NativeMonitors(cfg)
        with_info == SelectSeq([i \in DOMAIN n |-> [index |-> i - 1, repr |-> n[i]]],
                               LAMBDA m : m.repr.info)
        raw == [i \in DOMAIN with_info |->
                   [id |-> with_info[i].index,
                    dimensions |-> <<with_info[i].repr.rect.width, with_info[i].repr.rect.height>>,
                    position |-> <<with_info[i].repr.rect.x, with_info[i].repr.rect.y>>,
                    primary |-> with_info[i].repr.primary,
                    rect |-> with_info[i].repr.rect]]
    IN  IF (\E i \in DOMAIN n : n[i].primary) \/ raw = << >>
          THEN raw
          ELSE [raw EXCEPT ![1].primary = TRUE]

\* C24: under every interleaving of available_monitors and
\* invalidate_cached_monitor_list calls, each returned list is the complete
\* result of one run of the native query; the cache is None or one complete
\* list, and it changes only under the lock, from None to a whole list or back
\* to None, never element by element.
C24_ReturnedListsAreWholeQueryResults ==
    /\ [](\A i \in DOMAIN returned :
            /\ \E c \in 0..screen : returned[i].list = CompleteList(c)
            /\ \E k \in DOMAIN queries : queries[k].result = returned[i].list)
    /\ [](MONITORS # << >> => \E c \in 0..screen : MONITORS[1] = CompleteList(c))
    /\ [][MONITORS' # MONITORS =>
            /\ monitors_lock # 0
            /\ \/ MONITORS' = << >>
               \/ MONITORS = << >> /\ \E c \in 0..screen : MONITORS' = << CompleteList(c) >>]_vars

\* C24 witness: a list has been returned and an invalidation has completed; now
\* one thread has built half of a two-monitor list while the other thread,
\* inside available_monitors, waits for the lock.
C24_Witness ==
    /\ returned # << >>
    /\ invalidations # << >>
    /\ \E t, u \in Threads :
          /\ call[t].pc = "build"
          /\ Len(call[t].available) = 1
          /\ Len(call[t].resources) = 2
          /\ call[u].pc = "lock"

\* C25: between two invalidations the native query runs at most once; every
\* call of that period returns the list of that one query, the first of them
\* being the call that ran it; and a call that starts after an invalidation
\* completed returns a list queried from a configuration no older than the one
\* in force at that invalidation.
C25_QueryOncePerInvalidation ==
    /\ \A i, j \in DOMAIN queries : i # j => queries[i].epoch # queries[j].epoch
    /\ \A i \in DOMAIN returned :
          /\ \E k \in DOMAIN queries :
                /\ queries[k].epoch = returned[i].epoch
                /\ queries[k].result = returned[i].list
          /\ returned[i].hit <=>
                \E j \in 1..(i - 1) : returned[j].epoch = returned[i].epoch
          /\ \E c \in returned[i].floor..screen : returned[i].list = CompleteList(c)

\* C25 witness: a call queried, a later call got the cached list, then the
\* configuration changed and the cache was invalidated, and the next call
\* queried afresh and returned a different list.
C25_Witness ==
    \E i, j, k \in DOMAIN returned :
        /\ i < j /\ j < k
        /\ ~returned[i].hit /\ returned[j].hit
        /\ returned[i].epoch = returned[j].epoch
        /\ returned[k].epoch > returned[j].epoch
        /\ ~returned[k].hit
        /\ returned[k].floor > 0
        /\ returned[k].list # returned[i].list

\* C26: polling mode never blocks and terminates: inside poll_events the
\* request for the next native event can always complete at once, and every
\* poll_events call eventually returns with the callback slot cleared.
C26_PollEventsReturns ==
    /\ [](mode = "poll" /\ pc = "next" => ENABLED (NextEventSome \/ NextEventNil))
    /\ (mode = "poll") ~> (pc = "idle" /\ mode = "none" /\ user_callback = << >>)

\* C26 witness: a poll_events call that delivered three events, among them one
\* triggered from inside the callback, has returned.
C26_Witness ==
    /\ pc = "idle"
    /\ sess = 1
    /\ user_callback = << >>
    /\ \E i \in DOMAIN delivered : delivered[i].ev.origin = "incb"
    /\ Len(delivered) >= 3

\* C27: while an invocation of the user's callback is in progress the slot is
\* None and the invocation holds the callback of the running call; no step
\* starts a second invocation meanwhile; an event a window delegate emits
\* meanwhile goes to the back of the pending queue; and when the invocation
\* returns the slot holds that same callback again.
C27_NoReentrantInvocation ==
    /\ [](pc = "cb" => user_callback = << >> /\ callback = << sess >>)
    /\ [][pc = "cb" /\ pc' = "cb" => cur' = cur /\ callback' = callback]_vars
    /\ [][pc = "cb" /\ produced' # produced =>
            /\ pc' = "cb"
            /\ Len(pending_events') = Len(pending_events) + 1
            /\ SubSeq(pending_events', 1, Len(pending_events)) = pending_events
            /\ produced' = produced \cup {pending_events'[Len(pending_events')]}
            /\ delivered' = delivered]_vars
    /\ [][pc = "cb" /\ pc' # "cb" =>
            /\ user_callback' = callback
            /\ Len(delivered') = Len(delivered) + 1]_vars

\* C27 witness: an invocation is in progress and an event a window delegate
\* emitted during it waits in the pending queue.
C27_Witness ==
    /\ pc = "cb"
    /\ \E i \in DOMAIN pending_events :
          /\ pending_events[i].origin = "incb"
          /\ pending_events[i].born = sess

\* An event that was still queued when the session before the one that
\* delivers it (or holds it now) ended.
CarriedOver(e, session) == e.born < session

\* C28: the pending queue loses an event only to a delivery.  Every change of
\* the queue is an append or the removal of its head together with the start of
\* a callback invocation on that head; every event ever produced is held
\* exactly once, by the queue, the running invocation or the delivery history;
\* events left queued when a session ended are still queued only during the
\* first pending drain of the next session, ahead of everything newer; and they
\* are delivered in the order in which they were queued.
C28_QueueEmptiedOnlyByDelivery ==
    /\ [][pending_events' # pending_events =>
            \/ /\ Len(pending_events') > Len(pending_events)
               /\ SubSeq(pending_events', 1, Len(pending_events)) = pending_events
            \/ /\ pending_events # << >>
               /\ pending_events' = Tail(pending_events)
               /\ pc' = "cb"
               /\ cur' = Head(pending_events)
               /\ callback' = << sess >>]_vars
    /\ [](\A e \in produced : Holders(e) = 1)
    /\ [](\A i \in DOMAIN pending_events :
            (CarriedOver(pending_events[i], sess) /\ pc \notin {"idle", "dropped"}) =>
                /\ InFirstDrain
                /\ \A j \in 1..i : CarriedOver(pending_events[j], sess))
    /\ [](\A i, j \in DOMAIN delivered :
            (/\ i < j
             /\ delivered[i].sess = delivered[j].sess
             /\ CarriedOver(delivered[i].ev, delivered[i].sess)
             /\ CarriedOver(delivered[j].ev, delivered[j].sess)) =>
                delivered[i].ev.stamp < delivered[j].ev.stamp)

\* C28 witness: two events were left queued when a session ended, and the next
\* session has delivered both, in order, from its pending drain.
C28_Witness ==
    \E i, j \in DOMAIN delivered :
        /\ i < j
        /\ delivered[i].sess = 2 /\ delivered[j].sess = 2
        /\ CarriedOver(delivered[i].ev, 2) /\ CarriedOver(delivered[j].ev, 2)
        /\ delivered[i].ev.origin # "idle" /\ delivered[j].ev.origin # "idle"
        /\ delivered[i].via = "drain" /\ delivered[j].via = "drain"

\* C29: an event a window delegate callback delivers directly (the slot holds
\* the callback) never overtakes a queued event: whenever such a delivery
\* starts, the pending queue is empty.
C29_DirectDeliveryFindsQueueEmpty ==
    [][(pc # "cb" /\ pc' = "cb" /\ cur'.origin = "direct") => pending_events = << >>]_vars

\* The callback invocations of the running call that returned Break.
BreaksOfThisCall == { i \in DOMAIN delivered :
                        delivered[i].sess = sess /\ delivered[i].resp = "Break" }

\* C30: in run_forever Break is sticky.  Once an invocation of the call has
\* returned Break, control_flow is Break for the rest of the call whatever
\* later invocations return; the call never again reaches the request for a
\* native event; and each Break check it comes to (after the pending drain,
\* after the translated event's invocation) takes it to its return.
C30_BreakIsSticky ==
    /\ []((mode = "run" /\ BreaksOfThisCall # {}) => control_flow = "Break" /\ pc # "next")
    /\ [][(mode = "run" /\ control_flow = "Break" /\ mode' = "run") =>
            control_flow' = "Break"]_vars
    /\ [][(mode = "run" /\ control_flow' = "Break" /\ pc' # pc) =>
            /\ (pc = "drain" /\ pending_events = << >>) => pc' = "ret"
            /\ (pc = "cb" /\ ret_to = "loop") => pc' = "ret"]_vars

\* C30 witness: run_forever is at its return after an invocation returned
\* Break and a later invocation of the same call returned Continue.
C30_Witness ==
    /\ mode = "run"
    /\ pc = "ret"
    /\ \E i, j \in DOMAIN delivered :
          /\ i < j
          /\ delivered[i].sess = sess /\ delivered[j].sess = sess
          /\ delivered[i].resp = "Break"
          /\ delivered[j].resp = "Continue"

\* The translations of the running call, and whether the latest of them
\* yielded nothing.
TranslationsOfThisCall == { k \in DOMAIN translations : translations[k].session = sess }

LastTranslationWasNone ==
    /\ TranslationsOfThisCall # {}
    /\ LET k == CHOOSE n \in TranslationsOfThisCall : \A m \in TranslationsOfThisCall : m <= n
       IN  translations[k].ret = << >>

\* C31 as stated: in run_forever a native event that translates to nothing
\* causes no callback invocation, leaves control_flow as it is, and the loop
\* goes on to drain the pending queue and to wait for the next native event,
\* so run_forever never returns with such an event as the last one it took.
C31_NoneTranslationGoesOnToWait ==
    /\ [][(mode = "run" /\ pc = "send" /\ Len(translations') = Len(translations) + 1
             /\ translations'[Len(translations')].ret = << >>) =>
            /\ delivered' = delivered
            /\ control_flow' = control_flow
            /\ pc' = "drain"]_vars
    /\ []((mode = "run" /\ pc = "ret") => ~LastTranslationWasNone)

\* C31 as amended: such an event causes no invocation, leaves control_flow and
\* the callback slot as they are, and takes the loop to the pending drain; the
\* check after the drain then sends the loop to the request for the next native
\* event unless control_flow is Break, in which case run_forever returns.
C31_NoneTranslationGoesOnToDrain ==
    /\ [][(mode = "run" /\ pc = "send" /\ Len(translations') = Len(translations) + 1
             /\ translations'[Len(translations')].ret = << >>) =>
            /\ delivered' = delivered
            /\ control_flow' = control_flow
            /\ user_callback' = user_callback
            /\ pc' = "drain"]_vars
    /\ [][(mode = "run" /\ LastTranslationWasNone /\ pc = "drain" /\ pc' \notin {"drain", "cb"}) =>
            /\ pending_events = << >>
            /\ pc' = IF control_flow = "Break" THEN "ret" ELSE "next"]_vars
    /\ []((mode = "run" /\ pc = "ret" /\ LastTranslationWasNone) => control_flow = "Break")

\* C31 witness: run_forever took a native event that translated to nothing and
\* is now asking for the next one.
C31_Witness ==
    /\ mode = "run"
    /\ pc = "next"
    /\ LastTranslationWasNone

\* Whether the translation found a window for a pointer event: the event's own
\* window is registered and alive, or some registered window is key.
Accepted(t) == t.window # 0 \/ t.key # 0

\* The device events the claim lists for deltas dx and dy, as payloads.
ExpectedMotion(dx, dy) ==
    CASE dx # 0 /\ dy # 0 -> << <<"Motion", 0, <<0, dx>> >>, <<"Motion", 0, <<1, dy>> >>,
                                <<"MouseMotion", 0, <<dx, dy>> >> >>
      [] dx # 0 /\ dy = 0 -> << <<"Motion", 0, <<0, dx>> >>, <<"MouseMotion", 0, <<dx, dy>> >> >>
      [] dx = 0 /\ dy # 0 -> << <<"Motion", 0, <<1, dy>> >>, <<"MouseMotion", 0, <<dx, dy>> >> >>
      [] OTHER -> << >>

\* C32: an accepted mouse-moved or mouse-dragged event yields Motion axis 0 iff
\* delta_x is non-zero, Motion axis 1 iff delta_y is non-zero and one
\* MouseMotion iff either is, in that order, the first returned and the rest
\* queued, and they are delivered in that order; an event that is not accepted
\* yields nothing and queues nothing.
C32_MotionEventsPerNonZeroDelta ==
    \A k \in DOMAIN translations :
        translations[k].ns.type \in MouseMotionTypes =>
            LET t == translations[k]
                d == DeliveredOf(t.ns.id)
            IN  /\ Payloads(FanOut(t)) =
                      IF Accepted(t) THEN ExpectedMotion(t.ns.dx, t.ns.dy) ELSE << >>
                /\ Len(t.ret) = IF FanOut(t) = << >> THEN 0 ELSE 1
                /\ Len(d) <= Len(FanOut(t))
                /\ \A i \in DOMAIN d : d[i].ev = FanOut(t)[i]

\* C32 witness: a move with a vertical delta only, on a window that is not
\* registered while a registered window is key, has been delivered as Motion
\* axis 1 and MouseMotion; and a move with both deltas zero on the registered
\* window has been translated.
C32_Witness ==
    /\ \E k \in DOMAIN translations :
          /\ translations[k].ns.type = "NSMouseMoved"
          /\ translations[k].window = 0 /\ translations[k].key # 0
          /\ translations[k].ns.dx = 0 /\ translations[k].ns.dy # 0
          /\ Len(DeliveredOf(translations[k].ns.id)) = 2
    /\ \E k \in DOMAIN translations :
          /\ translations[k].ns.type = "NSMouseMoved"
          /\ translations[k].window # 0
          /\ translations[k].ns.dx = 0 /\ translations[k].ns.dy = 0

\* C33: an accepted mouse-entered event yields CursorEntered, returned, and
\* CursorMoved, queued, both naming the same window; one that is not accepted
\* yields nothing and queues nothing.
C33_EnteredAndMovedNameSameWindow ==
    \A k \in DOMAIN translations :
        translations[k].ns.type = "NSMouseEntered" =>
            LET t == translations[k]
            IN  IF Accepted(t)
                  THEN /\ Kinds(t.ret) = << "CursorEntered" >>
                       /\ Kinds(t.queued) = << "CursorMoved" >>
                       /\ t.ret[1].win = t.queued[1].win
                  ELSE FanOut(t) = << >>

\* C34: a scroll on a registered live window yields WindowEvent::MouseWheel,
\* returned, then DeviceEvent::MouseWheel, queued, with the same delta, and
\* they are delivered in that order; a scroll whose window is not registered
\* yields nothing and queues nothing.
C34_ScrollYieldsWindowThenDeviceWheel ==
    \A k \in DOMAIN translations :
        translations[k].ns.type = "NSScrollWheel" =>
            LET t == translations[k]
                d == DeliveredOf(t.ns.id)
            IN  /\ IF t.window # 0
                     THEN /\ Payloads(t.ret) = << <<"MouseWheel", t.ns.win, <<t.ns.dx, t.ns.dy>> >> >>
                          /\ Payloads(t.queued) = << <<"DeviceMouseWheel", 0, t.ret[1].arg>> >>
                     ELSE FanOut(t) = << >>
                /\ Len(d) <= Len(FanOut(t))
                /\ \A i \in DOMAIN d : d[i].ev = FanOut(t)[i]

\* C34 witness: both events of a scroll on the registered window have been
\* delivered, and a scroll on a window that is not registered has been
\* translated while a registered window was key.
C34_Witness ==
    /\ \E k \in DOMAIN translations :
          /\ translations[k].ns.type = "NSScrollWheel"
          /\ translations[k].window # 0
          /\ Len(DeliveredOf(translations[k].ns.id)) = 2
    /\ \E k \in DOMAIN translations :
          /\ translations[k].ns.type = "NSScrollWheel"
          /\ translations[k].window = 0 /\ translations[k].key # 0

\* C35: a key-down with logo held and key code 47 yields exactly one
\* KeyboardInput, Pressed, returned, and nothing queued; every other key-down
\* and every key-up yields nothing; and none of them changes the tracked
\* modifier state or the pending queue.
C35_OnlyCmdPeriodKeyDownYieldsInput ==
    [][(pc = "send" /\ ns.type \in {"NSKeyDown", "NSKeyUp"}
          /\ Len(translations') = Len(translations) + 1) =>
         LET t == translations'[Len(translations')]
         IN  /\ modifiers' = modifiers
             /\ pending_events' = pending_events
             /\ IF ns.type = "NSKeyDown" /\ "logo" \in ns.flags /\ ns.keycode = 47
                  THEN /\ Kinds(t.ret) = << "KeyboardInput" >>
                       /\ t.ret[1].arg[1] = "Pressed"
                       /\ t.queued = << >>
                  ELSE FanOut(t) = << >>]_vars

\* C35 witness: with the logo key tracked as pressed, a <Cmd-.> key-down has
\* been delivered as one KeyboardInput.
C35_Witness ==
    /\ modifiers.logo
    /\ \E k \in DOMAIN translations :
          /\ translations[k].ns.type = "NSKeyDown"
          /\ translations[k].mods.logo
          /\ Len(DeliveredOf(translations[k].ns.id)) = 1

\* The Awakened events delivered so far.
AwakenedDeliveries == { i \in DOMAIN delivered : delivered[i].ev.kind = "Awakened" }

\* C36: Awakened comes only from the application-defined event with the
\* activated subtype that a wakeup call posted: every translation that yields
\* Awakened is of such an event, posted by a recorded wakeup call; the Awakened
\* events delivered never outnumber the wakeup calls; and an
\* application-defined event with any other subtype yields nothing.
C36_AwakenedOnlyFromWakeup ==
    /\ Cardinality(AwakenedDeliveries) <= Len(wakeups)
    /\ \A i \in AwakenedDeliveries :
          \E w \in DOMAIN wakeups : wakeups[w].id = delivered[i].ev.src
    /\ \A k \in DOMAIN translations :
          LET t == translations[k]
          IN  /\ (\E i \in DOMAIN FanOut(t) : FanOut(t)[i].kind = "Awakened") =>
                    /\ t.ns.type = "NSApplicationDefined"
                    /\ t.ns.subtype = "NSApplicationActivatedEventType"
                    /\ Len(FanOut(t)) = 1
              /\ (t.ns.type = "NSApplicationDefined"
                    /\ t.ns.subtype # "NSApplicationActivatedEventType") => FanOut(t) = << >>

\* C36 witness: one wakeup call has been made and its Awakened delivered, and
\* an application-defined event of another subtype has been translated.
C36_Witness ==
    /\ Len(wakeups) = 1
    /\ Cardinality(AwakenedDeliveries) = 1
    /\ \E k \in DOMAIN translations :
          /\ translations[k].ns.type = "NSApplicationDefined"
          /\ translations[k].ns.subtype # "NSApplicationActivatedEventType"

\* Where window w stands in the registry ws.
PositionIn(ws, w) == CHOOSE i \in DOMAIN ws : ws[i] = w

\* C37: from every registry the program reaches, find_and_remove_window(id)
\* yields a registry without any entry of id and without any dead entry, in
\* which every other live entry is kept once and in its original relative
\* order, and on which a second call with the same id changes nothing; and the
\* registry a close notification leaves has no dead entry.
C37_RemovalPrunesKeepsOrderIsIdempotent ==
    /\ [](\A id \in WindowIds :
            LET r == find_and_remove_window(windows, alive, id)
            IN  /\ \A i \in DOMAIN r : r[i] # id /\ r[i] \in alive
                /\ \A i \in DOMAIN windows :
                      (windows[i] # id /\ windows[i] \in alive) =>
                          Cardinality({j \in DOMAIN r : r[j] = windows[i]}) = 1
                /\ \A i, j \in DOMAIN r :
                      i < j => PositionIn(windows, r[i]) < PositionIn(windows, r[j])
                /\ find_and_remove_window(r, alive, id) = r)
    /\ [][windows' # windows => \A i \in DOMAIN windows' : windows'[i] \in alive]_vars

\* C37 witness: a single close notification, for the second window and with
\* the third already destroyed, has left only the first window registered.
C37_Witness ==
    /\ delegateCount = 1
    /\ windows = << 1 >>
    /\ alive = {1, 2}

\* C38: every non-empty list query_monitor_list yields contains a monitor
\* marked primary, and primary_monitor on a non-empty list succeeds with the
\* first monitor that carries the primary flag, also when output info was
\* missing for some reported monitor.
C38_NonEmptyListHasPrimary ==
    /\ \A i \in DOMAIN queries :
          queries[i].result # << >> =>
              \E j \in DOMAIN queries[i].result : queries[i].result[j].primary
    /\ \A i \in DOMAIN returned :
          (returned[i].op = "primary_monitor" /\ returned[i].list # << >>) =>
              /\ returned[i].found # << >>
              /\ \E j \in DOMAIN returned[i].list :
                    /\ returned[i].found[1] = returned[i].list[j]
                    /\ returned[i].list[j].primary
                    /\ \A k \in 1..(j - 1) : ~returned[i].list[k].primary

\* The overlap of the window rectangle of a returned lookup with monitor j of
\* its list (0 without a window rectangle).
OverlapWith(r, j) ==
    IF r.window_rect = << >> THEN 0 ELSE get_overlapping_area(r.window_rect[1], r.list[j].rect)

\* C40: get_monitor_for_window fails exactly on an empty monitor list;
\* otherwise it returns a monitor no other monitor overlaps the window more
\* than, the earliest of the list among those, and the first monitor of the
\* list when the window rectangle is absent or overlaps no monitor.
C40_LargestOverlapEarliestTieFirstDefault ==
    \A i \in DOMAIN returned :
        returned[i].op = "get_monitor_for_window" =>
            LET r == returned[i]
            IN  /\ (r.found = << >>) <=> (r.list = << >>)
                /\ r.list # << >> =>
                      /\ \E j \in DOMAIN r.list :
                            /\ r.found[1] = r.list[j]
                            /\ \A k \in DOMAIN r.list : OverlapWith(r, k) <= OverlapWith(r, j)
                            /\ \A k \in 1..(j - 1) : OverlapWith(r, k) < OverlapWith(r, j)
                      /\ (\A k \in DOMAIN r.list : OverlapWith(r, k) = 0) =>
                            r.found[1] = r.list[1]

\* C40 witness: lookups returned for two monitors tied on a non-zero overlap,
\* the first returned; for the second monitor returned on its larger overlap;
\* and on an empty list.
C40_Witness ==
    /\ \E i \in DOMAIN returned :
          /\ returned[i].op = "get_monitor_for_window"
          /\ Len(returned[i].list) = 2
          /\ OverlapWith(returned[i], 1) = OverlapWith(returned[i], 2)
          /\ OverlapWith(returned[i], 1) > 0
          /\ returned[i].found = << returned[i].list[1] >>
    /\ \E i \in DOMAIN returned :
          /\ returned[i].op = "get_monitor_for_window"
          /\ Len(returned[i].list) = 2
          /\ returned[i].found = << returned[i].list[2] >>
    /\ \E i \in DOMAIN returned :
          /\ returned[i].op = "get_monitor_for_window"
          /\ returned[i].list = << >>

\* C39: the native hide counter never exceeds 1, and whenever no hide_cursor
\* call is in progress it is 1 if cursor_hidden is true and 0 otherwise, also
\* when threads call hide_cursor concurrently.
C39_HideCounterFollowsFlag ==
    /\ hide_counter <= 1
    /\ (\A t \in Threads : hider[t].pc = "idle") =>
          hide_counter = (IF cursor_hidden THEN 1 ELSE 0)

====
